---- MODULE Spec2Model ----
(***************************************************************************)
(* A model of the goal-search and game-search framework of ai-bca:         *)
(*   lab1/search_problem.py, lab1/search_algorithms.py,                    *)
(*   lab1/spotlessroomba_problem.py, lab1_part1/roomba_problem.py,         *)
(*   lab1_part1/slidepuzzle_problem.py, lab2/gamesearch_problem.py,        *)
(*   lab2/nim_game.py, lab2/tictactoe_game.py, lab2/connectfour_game.py,   *)
(*   lab2/roomba_game.py, lab2/game_algorithms.py.                         *)
(*                                                                         *)
(* StateNode objects live in the object store `nodes`; a reference to a    *)
(* node is its address (its index in `nodes`), and the reference None is   *)
(* the address 0.  An optional action is <<>> (None) or <<a>>.             *)
(***************************************************************************)
EXTENDS Integers, Sequences, FiniteSets, TLC

VARIABLES
    nodes,            \* the object store: a sequence of StateNode objects
    boards,           \* the store of mutable list objects (game boards)
    alg,              \* "tree" | "graph": the search mixin of the agent
    strat,            \* "random" | "dfs" | "bfs" | "ucs": the strategy mixin
    cutoff,           \* the cutoff argument of search()
    pc,               \* position inside search(): "call" | "loop" | "expand" | "done"
    frontier,         \* self.frontier
    ext_filter,       \* GraphSearchAlgorithm.search's local ext_filter
    current_node,     \* the dequeued node (address), 0 before the first dequeue
    todo,             \* actions of current_node the for-loop has not reached yet
    extended,         \* the local flag `extended`
    total_extends,    \* self.total_extends
    total_enqueues,   \* self.total_enqueues
    result,           \* what search() returned: an address, or 0 for None
    cb_stop,          \* history: some callback invocation has returned True
    admitted,         \* history: addresses appended to the frontier, in order
    extend_log,       \* history: addresses whose for-loop ran, in order
    picked,           \* history: the calls made on agents (pick_action, ...), what the callback would answer, how each ended
    roots,            \* history: <<n, r>> for each r = n.get_as_root_node()
    move_limits,      \* NimGameState.move_limits (class-level)
    called,           \* history: the last method called on a game node, its argument, how it ended
    app               \* the Search_GUI_Controller and the position of its run_search()

searchVars == <<alg, strat, cutoff, pc, frontier, ext_filter, current_node, todo,
                extended, total_extends, total_enqueues, result, cb_stop,
                admitted, extend_log>>
gameVars == <<boards, picked, roots, move_limits>>
callVars == <<called, app>>
vars == <<nodes, searchVars, gameVars, callVars>>

\* no method of a game node has been called yet
NoCall ==
    [op |-> "", node |-> 0, arg |-> <<>>,
     outcome |-> [returned |-> FALSE, raised |-> "", result |-> <<>>]]

\* an agent that is used without a Search_GUI_Controller
NoController == [status |-> "none"]

(***************************************************************************)
(* Bounds of the model.                                                    *)
(***************************************************************************)
\* Tree search never stops on a goal-free cyclic grid: nodes at this depth are
\* not extended by the model.
MaxDepth == 4
\* search() is called with a cutoff in 1..MaxCutoff or with INF.
MaxCutoff == 2

\* float('inf'): above every depth and path cost the model reaches.
INF == 1000000

(***************************************************************************)
(* lab1_part1/roomba_problem.py                                            *)
(***************************************************************************)
FLOOR == "."
CARPET == "~"
WALL == "#"
DIRTY_FLOOR == "?"
DIRTY_CARPET == "+"

TRANSITION_COSTS(t) ==
    CASE t = FLOOR -> 1
      [] t = CARPET -> 2
      [] t = WALL -> 0
      [] t = DIRTY_FLOOR -> 1
      [] t = DIRTY_CARPET -> 2

Coordinate(r, c) == [row |-> r, col |-> c]

applyTo(action, c) == Coordinate(action.row + c.row, action.col + c.col)

ALL_ACTIONS == << Coordinate(0, 1), Coordinate(1, 0), Coordinate(0, -1), Coordinate(-1, 0) >>

RoombaState(position, grid, parent, last_action, depth, path_cost) ==
    [kind |-> "Roomba", position |-> position, grid |-> grid, parent |-> parent,
     last_action |-> last_action, depth |-> depth, path_cost |-> path_cost]

get_width(s) == Len(s.grid[1])

get_height(s) == Len(s.grid)

is_inbounds(s, coord) ==
    /\ coord.row >= 0
    /\ coord.col >= 0
    /\ coord.row < get_height(s)
    /\ coord.col < get_width(s)

\* spotlessroomba_problem.py: DIRTY_TERRAIN
DIRTY_TERRAIN(t) ==
    CASE t = FLOOR -> DIRTY_FLOOR
      [] t = CARPET -> DIRTY_CARPET

\* spotlessroomba_problem.py: CLEAN_TERRAIN.get(x, x)
CLEAN_TERRAIN(t) ==
    CASE t = DIRTY_FLOOR -> FLOOR
      [] t = DIRTY_CARPET -> CARPET
      [] OTHER -> t

\* x in a tuple
InSeq(x, seq) == \E i \in 1..Len(seq) : seq[i] = x

\* grid[coord.row][coord.col], the rows and columns of the code counted from 0;
\* SpotlessRoombaState overrides it to show the spots that are still dirty
get_terrain(s, coord) ==
    LET terrain == s.grid[coord.row + 1][coord.col + 1]
    IN  IF s.kind = "Spotless" /\ InSeq(coord, s.dirty_locations)
        THEN DIRTY_TERRAIN(terrain)
        ELSE terrain

is_valid_position(s, coord) == is_inbounds(s, coord) /\ get_terrain(s, coord) # WALL

RoombaFeatures(s) == s.position

RoombaIsGoal(s) == get_terrain(s, s.position) \in {DIRTY_FLOOR, DIRTY_CARPET}

RoombaAllActions(s) ==
    SelectSeq(ALL_ACTIONS, LAMBDA a : is_valid_position(s, applyTo(a, s.position)))

\* a get_next_state that forgets the cost of the path so far
RoombaNextStateStepCostOnly(self, ref, action) ==
    LET new_pos == applyTo(action, self.position)
    IN  [kind |-> self.kind, position |-> new_pos, grid |-> self.grid, parent |-> ref,
         last_action |-> <<action>>, depth |-> self.depth + 1,
         path_cost |-> TRANSITION_COSTS(self.grid[new_pos.row + 1][new_pos.col + 1])]

\* self is the node, ref its address (parent = self)
RoombaNextState(self, ref, action) ==
    LET new_pos == applyTo(action, self.position)
        step_cost == TRANSITION_COSTS(get_terrain(self, new_pos))
    IN  RoombaState(new_pos, self.grid, ref, <<action>>, self.depth + 1,
                    self.path_cost + step_cost)

(***************************************************************************)
(* lab1/spotlessroomba_problem.py                                          *)
(***************************************************************************)
SpotlessRoombaState(dirty_locations, position, grid, parent, last_action, depth, path_cost) ==
    [kind |-> "Spotless", dirty_locations |-> dirty_locations, position |-> position,
     grid |-> grid, parent |-> parent, last_action |-> last_action, depth |-> depth,
     path_cost |-> path_cost]

SpotlessFeatures(s) == << s.position, s.dirty_locations >>

SpotlessIsGoal(s) == Len(s.dirty_locations) = 0

SpotlessNextState(self, ref, action) ==
    LET new_pos == applyTo(action, self.position)
        step_cost == TRANSITION_COSTS(get_terrain(self, new_pos))
    IN  SpotlessRoombaState(
            IF InSeq(new_pos, self.dirty_locations)
            THEN SelectSeq(self.dirty_locations, LAMBDA x : x # new_pos)
            ELSE self.dirty_locations,
            new_pos, self.grid, ref, <<action>>, self.depth + 1,
            self.path_cost + step_cost)

\* the cells of an h-by-w grid in the order of the nested loops of readFromFile
RowMajor(h, w) == [i \in 1..(h * w) |-> Coordinate((i - 1) \div w, (i - 1) % w)]

\* SpotlessRoombaState.readFromFile: the dirty cells listed, the grid cleaned
SpotlessFromFile(init_r, init_c, layout) ==
    LET h == Len(layout)
        w == Len(layout[1])
        dirty == SelectSeq(RowMajor(h, w),
                           LAMBDA x : layout[x.row + 1][x.col + 1] \in {DIRTY_CARPET, DIRTY_FLOOR})
        grid == [r \in 1..h |-> [c \in 1..w |-> CLEAN_TERRAIN(layout[r][c])]]
    IN  SpotlessRoombaState(dirty, Coordinate(init_r, init_c), grid, 0, <<>>, 0, 0)

(***************************************************************************)
(* lab1_part1/slidepuzzle_problem.py                                       *)
(***************************************************************************)
SlidePuzzleState(tiles, empty_pos, parent, last_action, depth, path_cost) ==
    [kind |-> "SlidePuzzle", tiles |-> tiles, empty_pos |-> empty_pos, parent |-> parent,
     last_action |-> last_action, depth |-> depth, path_cost |-> path_cost]

get_size(s) == Len(s.tiles)

Abs(x) == IF x < 0 THEN -x ELSE x

SlideFeatures(s) == s.tiles

SlideIsGoal(s) ==
    \A r \in 0..(get_size(s) - 1), c \in 0..(get_size(s) - 1) :
        IF r = 0 /\ c = 0 THEN s.tiles[r + 1][c + 1] = 0
        ELSE s.tiles[r + 1][c + 1] = r * get_size(s) + c

SlideIsLegal(s, action) ==
    LET in_valid_row == 0 <= action.row /\ action.row < get_size(s)
        in_valid_col == 0 <= action.col /\ action.col < get_size(s)
        is_adjacent == Abs(action.row - s.empty_pos.row) + Abs(action.col - s.empty_pos.col) = 1
    IN  in_valid_row /\ in_valid_col /\ is_adjacent

SlideAllActions(s) ==
    SelectSeq(RowMajor(get_size(s), get_size(s)), LAMBDA a : SlideIsLegal(s, a))

\* get_next_state without `new_tiles[action.row][action.col] = 0`
SlideNextStateNoClear(self, ref, action) ==
    LET moved == self.tiles[action.row + 1][action.col + 1]
        new_tiles == [r \in 1..get_size(self) |-> [c \in 1..get_size(self) |->
                        IF r = self.empty_pos.row + 1 /\ c = self.empty_pos.col + 1 THEN moved
                        ELSE self.tiles[r][c]]]
    IN  SlidePuzzleState(new_tiles, action, ref, <<action>>, self.depth + 1,
                         self.path_cost + 1)

SlideNextState(self, ref, action) ==
    LET moved == self.tiles[action.row + 1][action.col + 1]
        new_tiles == [r \in 1..get_size(self) |-> [c \in 1..get_size(self) |->
                        IF r = action.row + 1 /\ c = action.col + 1 THEN 0
                        ELSE IF r = self.empty_pos.row + 1 /\ c = self.empty_pos.col + 1 THEN moved
                        ELSE self.tiles[r][c]]]
    IN  SlidePuzzleState(new_tiles, action, ref, <<action>>, self.depth + 1,
                         self.path_cost + 1)

\* SlidePuzzleState.readFromFile: empty_pos is the last cell holding 0, (0, 0) by default
SlideFromFile(tiles) ==
    LET n == Len(tiles)
        zeros == SelectSeq(RowMajor(n, n), LAMBDA x : tiles[x.row + 1][x.col + 1] = 0)
        empty_pos == IF Len(zeros) = 0 THEN Coordinate(0, 0) ELSE zeros[Len(zeros)]
    IN  SlidePuzzleState(tiles, empty_pos, 0, <<>>, 0, 0)

(***************************************************************************)
(* lab1/search_problem.py: StateNode                                       *)
(***************************************************************************)
get_state_features(s) ==
    CASE s.kind = "Roomba" -> RoombaFeatures(s)
      [] s.kind = "Spotless" -> SpotlessFeatures(s)
      [] s.kind = "SlidePuzzle" -> SlideFeatures(s)

is_goal_state(s) ==
    CASE s.kind = "Roomba" -> RoombaIsGoal(s)
      [] s.kind = "Spotless" -> SpotlessIsGoal(s)
      [] s.kind = "SlidePuzzle" -> SlideIsGoal(s)

get_all_actions(s) ==
    CASE s.kind = "Roomba" -> RoombaAllActions(s)
      [] s.kind = "Spotless" -> RoombaAllActions(s)
      [] s.kind = "SlidePuzzle" -> SlideAllActions(s)

\* RoombaState.is_legal_action (SpotlessRoombaState inherits it):
\* action.is_legal() is `self in ALL_ACTIONS`
RoombaIsLegalAction(s, action) ==
    /\ InSeq(action, ALL_ACTIONS)
    /\ is_valid_position(s, applyTo(action, s.position))

is_legal_action(s, action) ==
    CASE s.kind = "Roomba" -> RoombaIsLegalAction(s, action)
      [] s.kind = "Spotless" -> RoombaIsLegalAction(s, action)
      [] s.kind = "SlidePuzzle" -> SlideIsLegal(s, action)

get_next_state(self, ref, action) ==
    CASE self.kind = "Roomba" -> RoombaNextState(self, ref, action)
      [] self.kind = "Spotless" -> SpotlessNextState(self, ref, action)
      [] self.kind = "SlidePuzzle" -> SlideNextState(self, ref, action)

\* a copy that forgets to reset the depth
RootCopyKeepsDepth(s) == [s EXCEPT !.parent = 0, !.last_action = <<>>, !.path_cost = 0]

\* copy(self) with parent, last_action, path_cost and depth reset
RootCopy(s) == [s EXCEPT !.parent = 0, !.last_action = <<>>, !.path_cost = 0, !.depth = 0]

\* a reset that works on self instead of a copy
AsRootInPlace(store, ref) ==
    [store |-> [store EXCEPT ![ref] = RootCopy(store[ref])], ref |-> ref]

\* get_as_root_node: the store with the copy allocated, and the copy's address
get_as_root_node(store, ref) ==
    [store |-> Append(store, RootCopy(store[ref])), ref |-> Len(store) + 1]

\* an equality that also looks at the depth of the nodes
NodeEqWithDepth(a, b) ==
    a.kind = b.kind /\ get_state_features(a) = get_state_features(b) /\ a.depth = b.depth

\* the builtin hash(): a function of the value hashed and of nothing else
BuiltinHash(v) == [hash_of |-> v]

\* StateNode.__hash__
NodeHash(s) == BuiltinHash(get_state_features(s))

\* StateNode.__eq__: isinstance(other, type(self)), then the state features
\* (the features of two different classes are tuples of different shapes)
NodeEq(a, b) == a.kind = b.kind /\ get_state_features(a) = get_state_features(b)

\* a search that enqueues the moves back to the parent as well
ParentNotTested(store, next_state, parent) == TRUE

\* next_state != current_node.parent, where the parent may be None
NotParent(store, next_state, parent) ==
    parent = 0 \/ ~NodeEq(next_state, store[parent])

\* a get_path without the closing path.reverse(): node first, root last
RECURSIVE GetPathNoReverse(_, _)
GetPathNoReverse(store, ref) ==
    IF store[ref].parent = 0 THEN <<ref>>
    ELSE <<ref>> \o GetPathNoReverse(store, store[ref].parent)

\* get_path(): the addresses of the path, the root first
RECURSIVE get_path(_, _)
get_path(store, ref) ==
    IF store[ref].parent = 0 THEN <<ref>>
    ELSE Append(get_path(store, store[ref].parent), ref)

(***************************************************************************)
(* lab1/search_algorithms.py: the frontier strategies                      *)
(***************************************************************************)
\* an order of the heap items by the depth of the node, not by the cost
ItemLessByDepth(store, x, y) ==
    IF store[x[2]].depth # store[y[2]].depth THEN store[x[2]].depth < store[y[2]].depth
    ELSE IF x[2] = y[2] \/ NodeEq(store[x[2]], store[y[2]]) THEN FALSE
    ELSE TRUE

\* (path_cost, node) < (path_cost, node) as Python compares tuples: the first
\* components that differ decide; nodes differ when StateNode.__eq__ says so,
\* and then StateNode.__lt__ answers True.
ItemLess(store, x, y) ==
    IF x[1] # y[1] THEN x[1] < y[1]
    ELSE IF x[2] = y[2] \/ NodeEq(store[x[2]], store[y[2]]) THEN FALSE
    ELSE TRUE

\* heapq._siftdown, positions counted from 0 as in heapq
RECURSIVE siftdown(_, _, _, _, _)
siftdown(store, heap, startpos, pos, newitem) ==
    IF pos > startpos
    THEN LET parentpos == (pos - 1) \div 2
             parent == heap[parentpos + 1]
         IN  IF ItemLess(store, newitem, parent)
             THEN siftdown(store, [heap EXCEPT ![pos + 1] = parent], startpos, parentpos, newitem)
             ELSE [heap EXCEPT ![pos + 1] = newitem]
    ELSE [heap EXCEPT ![pos + 1] = newitem]

\* the while-loop of heapq._siftup, then its closing _siftdown
RECURSIVE siftup_loop(_, _, _, _, _)
siftup_loop(store, heap, startpos, pos, newitem) ==
    LET endpos == Len(heap)
        childpos == 2 * pos + 1
        rightpos == childpos + 1
    IN  IF childpos < endpos
        THEN LET c == IF rightpos < endpos
                         /\ ~ItemLess(store, heap[childpos + 1], heap[rightpos + 1])
                      THEN rightpos ELSE childpos
             IN  siftup_loop(store, [heap EXCEPT ![pos + 1] = heap[c + 1]], startpos, c, newitem)
        ELSE siftdown(store, [heap EXCEPT ![pos + 1] = newitem], startpos, pos, newitem)

heappush(store, heap, item) ==
    siftdown(store, Append(heap, item), 0, Len(heap), item)

\* a pop that takes the last item of the list instead of the smallest
HeappopLast(store, heap) ==
    << heap[Len(heap)], SubSeq(heap, 1, Len(heap) - 1) >>

\* heappop: <<the item returned, the heap left>>
heappop(store, heap) ==
    LET lastelt == heap[Len(heap)]
        rest == SubSeq(heap, 1, Len(heap) - 1)
    IN  IF Len(rest) > 0
        THEN << rest[1], siftup_loop(store, [rest EXCEPT ![1] = lastelt], 0, 0, lastelt) >>
        ELSE << lastelt, rest >>

\* the admission test of each strategy's enqueue
Admits(strategy, node, limit) ==
    IF strategy = "ucs" THEN node.path_cost < limit ELSE node.depth < limit

\* an enqueue that admits every node, whatever the cutoff
EnqueueNoCutoff(strategy, store, fr, ref, limit) ==
    IF strategy = "ucs" THEN heappush(store, fr, <<store[ref].path_cost, ref>>)
    ELSE Append(fr, ref)

\* enqueue(state, cutoff): the frontier afterwards
enqueue(strategy, store, fr, ref, limit) ==
    IF ~Admits(strategy, store[ref], limit) THEN fr
    ELSE IF strategy = "ucs" THEN heappush(store, fr, <<store[ref].path_cost, ref>>)
    ELSE Append(fr, ref)

\* `while self.frontier`: a list is true when not empty, a queue.Queue always
LoopAlways(strategy, fr) == TRUE

LoopGuard(strategy, fr) == strategy = "bfs" \/ Len(fr) > 0

\* list.remove(s): drops the first element equal (==) to s
RECURSIVE ListRemove(_, _, _)
ListRemove(store, fr, s) ==
    IF fr = <<>> THEN <<>>
    ELSE IF Head(fr) = s \/ NodeEq(store[Head(fr)], store[s]) THEN Tail(fr)
    ELSE <<Head(fr)>> \o ListRemove(store, Tail(fr), s)

\* the value that stands for an exception leaving dequeue()
Raised == -1

\* dequeue(): the set of possible <<node returned (0 for None), frontier left>>;
\* random.choice raises IndexError on an empty list
dequeue(strategy, store, fr) ==
    CASE strategy = "random" ->
            IF Len(fr) > 0
            THEN { << fr[i], ListRemove(store, fr, fr[i]) >> : i \in 1..Len(fr) }
            ELSE { << Raised, fr >> }
      [] strategy = "dfs" ->
            IF Len(fr) > 0 THEN { << fr[Len(fr)], SubSeq(fr, 1, Len(fr) - 1) >> }
            ELSE { << 0, fr >> }
      [] strategy = "bfs" ->
            IF Len(fr) > 0 THEN { << fr[1], Tail(fr) >> } ELSE { << 0, fr >> }
      [] strategy = "ucs" ->
            IF Len(fr) > 0
            THEN LET r == heappop(store, fr) IN { << r[1][2], r[2] >> }
            ELSE { << 0, fr >> }

(***************************************************************************)
(* lab1/search_algorithms.py: TreeSearchAlgorithm / GraphSearchAlgorithm   *)
(***************************************************************************)
\* a graph search that tests the filter the wrong way round
EnqueueIfMarked(algorithm, store, next_state, parent, filter) ==
    get_state_features(next_state) \in filter

\* a graph search that never marks a state
FilterKeep(algorithm, filter, next_state) == filter

\* the test guarding enqueue in the for-loop of search()
ShouldEnqueue(algorithm, store, next_state, parent, filter) ==
    IF algorithm = "graph"
    THEN NotParent(store, next_state, parent) /\ get_state_features(next_state) \notin filter
    ELSE NotParent(store, next_state, parent)

\* ext_filter.add(next_state), which only graph search does
FilterAdd(algorithm, filter, next_state) ==
    IF algorithm = "graph" THEN filter \cup {get_state_features(next_state)} ELSE filter

\* self.enqueue(initial_state)
SearchCall ==
    /\ pc = "call"
    /\ frontier' = enqueue(strat, nodes, frontier, 1, INF)
    /\ admitted' = <<1>>
    /\ pc' = "loop"
    /\ UNCHANGED <<callVars, nodes, gameVars, alg, strat, cutoff, ext_filter, current_node,
                   todo, extended, total_extends, total_enqueues, result, cb_stop,
                   extend_log>>

\* the while-loop's exit: the frontier is empty, search() returns None
ReturnEmpty ==
    /\ pc = "loop"
    /\ ~LoopGuard(strat, frontier)
    /\ pc' = "done"
    /\ result' = 0
    /\ UNCHANGED <<callVars, nodes, gameVars, alg, strat, cutoff, frontier, ext_filter,
                   current_node, todo, extended, total_extends, total_enqueues, cb_stop,
                   admitted, extend_log>>

\* one pass of the while-loop up to the for-loop: dequeue, the None test, the
\* goal test, the callback on the dequeued node
LoopStep ==
    /\ pc = "loop"
    /\ LoopGuard(strat, frontier)
    /\ \E d \in dequeue(strat, nodes, frontier) :
         /\ frontier' = d[2]
         /\ IF d[1] = Raised
            THEN /\ pc' = "raised"
                 /\ UNCHANGED <<current_node, todo, extended, cb_stop, result>>
            ELSE IF d[1] = 0
            THEN /\ pc' = "done"
                 /\ result' = 0
                 /\ UNCHANGED <<current_node, todo, extended, cb_stop>>
            ELSE /\ current_node' = d[1]
                 /\ IF is_goal_state(nodes[d[1]])
                    THEN /\ pc' = "done"
                         /\ result' = d[1]
                         /\ UNCHANGED <<todo, extended, cb_stop>>
                    ELSE \E stop \in BOOLEAN :
                           IF stop
                           THEN /\ pc' = "done"
                                /\ result' = 0
                                /\ cb_stop' = TRUE
                                /\ UNCHANGED <<todo, extended>>
                           ELSE /\ alg = "graph" \/ nodes[d[1]].depth < MaxDepth
                                /\ pc' = "expand"
                                /\ todo' = get_all_actions(nodes[d[1]])
                                /\ extended' = FALSE
                                /\ UNCHANGED <<result, cb_stop>>
    /\ UNCHANGED <<callVars, nodes, gameVars, alg, strat, cutoff, ext_filter, total_extends,
                   total_enqueues, admitted, extend_log>>

\* one pass of the for-loop over current_node.get_all_actions()
ExpandChild ==
    /\ pc = "expand"
    /\ todo # <<>>
    /\ LET action == Head(todo)
           self == nodes[current_node]
           next_state == get_next_state(self, current_node, action)
           ref == Len(nodes) + 1
       IN  IF ShouldEnqueue(alg, nodes, next_state, self.parent, ext_filter)
           THEN /\ nodes' = Append(nodes, next_state)
                /\ frontier' = enqueue(strat, nodes', frontier, ref, cutoff)
                /\ total_enqueues' = total_enqueues + 1
                /\ ext_filter' = FilterAdd(alg, ext_filter, next_state)
                /\ \E stop \in BOOLEAN : cb_stop' = (cb_stop \/ stop)
                /\ extended' = TRUE
                /\ admitted' = IF Admits(strat, next_state, cutoff)
                               THEN Append(admitted, ref) ELSE admitted
           ELSE UNCHANGED <<nodes, frontier, total_enqueues, ext_filter, cb_stop,
                            extended, admitted>>
    /\ todo' = Tail(todo)
    /\ UNCHANGED <<callVars, gameVars, alg, strat, cutoff, pc, current_node, total_extends,
                   result, extend_log>>

\* the end of the for-loop: `if extended: self.total_extends += 1`
ExpandDone ==
    /\ pc = "expand"
    /\ todo = <<>>
    /\ total_extends' = IF extended THEN total_extends + 1 ELSE total_extends
    /\ extend_log' = Append(extend_log, current_node)
    /\ pc' = "loop"
    /\ UNCHANGED <<callVars, nodes, gameVars, alg, strat, cutoff, frontier, ext_filter,
                   current_node, todo, extended, total_enqueues, result, cb_stop,
                   admitted>>

(***************************************************************************)
(* lab2/gamesearch_problem.py and the four games.  A board that the code   *)
(* keeps in a list (TicTacToe, ConnectFour: board; RoombaRace: grid and    *)
(* positions) is an object of the store `boards`; the node holds its       *)
(* address.  The tuple of a Nim board is a value of the node itself.       *)
(***************************************************************************)
EMPTY == -1

TicTacToe_num_rows == 3
TicTacToe_num_cols == 3
ConnectFour_num_rows == 6
ConnectFour_num_cols == 7

CLEANED == "%"

\* len(player_names): every game names two players
player_names(kind) ==
    CASE kind = "Nim" -> <<"A", "B">>
      [] kind = "TicTacToe" -> <<"X", "0">>
      [] kind = "ConnectFour" -> <<"X", "0">>
      [] kind = "RoombaRace" -> <<"R", "B">>

NimAction(stones, pile) == [stones |-> stones, pile |-> pile]
TicTacToeAction(row, col) == [row |-> row, col |-> col]
ConnectFourAction(column) == [column |-> column]
RoombaRaceAction(r, c) == [r |-> r, c |-> c]

\* NEIGHBORING_STEPS, in the order of the dict: North, East, South, West
NEIGHBORING_STEPS ==
    << RoombaRaceAction(-1, 0), RoombaRaceAction(0, 1), RoombaRaceAction(1, 0),
       RoombaRaceAction(0, -1) >>

NimGameState(board, parent, last_action, depth, current_player_index) ==
    [kind |-> "Nim", board |-> board, parent |-> parent, last_action |-> last_action,
     depth |-> depth, current_player_index |-> current_player_index]

TicTacToeGameState(board, parent, last_action, depth, current_player_index) ==
    [kind |-> "TicTacToe", board |-> board, parent |-> parent, last_action |-> last_action,
     depth |-> depth, current_player_index |-> current_player_index]

ConnectFourGameState(board, parent, last_action, depth, current_player_index) ==
    [kind |-> "ConnectFour", board |-> board, parent |-> parent, last_action |-> last_action,
     depth |-> depth, current_player_index |-> current_player_index]

RoombaRaceGameState(positions, grid, parent, last_action, depth, current_player_index) ==
    [kind |-> "RoombaRace", positions |-> positions, grid |-> grid, parent |-> parent,
     last_action |-> last_action, depth |-> depth,
     current_player_index |-> current_player_index]

IsGame(s) == s.kind \in {"Nim", "TicTacToe", "ConnectFour", "RoombaRace"}

\* get_state_features of the four games; bstore is the store of the boards
GameFeatures(bstore, s) ==
    CASE s.kind = "Nim" -> << s.board, s.current_player_index >>
      [] s.kind = "TicTacToe" -> bstore[s.board]
      [] s.kind = "ConnectFour" -> bstore[s.board]
      [] s.kind = "RoombaRace" -> << bstore[s.positions], bstore[s.grid] >>

\* NimGameState.move_limits: None, or the tuple read from the first line of the file
NoLimits == [is_none |-> TRUE, values |-> <<>>]
Limits(values) == [is_none |-> FALSE, values |-> values]

\* NimGameState.move_limits is None, or stones is one of move_limits
StonesAllowed(limits, stones) == limits.is_none \/ InSeq(stones, limits.values)

\* NimGameState.get_all_actions: the piles in order, for each the stones
\* 1..pile (range(1, n + 1) is empty for n < 1)
RECURSIVE NimActionsFrom(_, _, _)
NimActionsFrom(limits, board, pile) ==
    IF pile >= Len(board) THEN <<>>
    ELSE (IF board[pile + 1] < 1 THEN <<>>
          ELSE SelectSeq([st \in 1..board[pile + 1] |-> NimAction(st, pile)],
                         LAMBDA a : StonesAllowed(limits, a.stones)))
         \o NimActionsFrom(limits, board, pile + 1)

\* every cell of the board, occupied or not
TicTacToeAllCells(board) ==
    [i \in 1..(TicTacToe_num_rows * TicTacToe_num_cols) |->
        TicTacToeAction((i - 1) \div TicTacToe_num_cols, (i - 1) % TicTacToe_num_cols)]

TicTacToeAllActions(board) ==
    SelectSeq([i \in 1..(TicTacToe_num_rows * TicTacToe_num_cols) |->
                  TicTacToeAction((i - 1) \div TicTacToe_num_cols, (i - 1) % TicTacToe_num_cols)],
              LAMBDA a : board[a.row + 1][a.col + 1] = EMPTY)

\* ConnectFourGameState.is_column_full: the top row only
is_column_full(board, col_number) == board[1][col_number + 1] # EMPTY

ConnectFourAllActions(board) ==
    SelectSeq([i \in 1..ConnectFour_num_cols |-> ConnectFourAction(i - 1)],
              LAMBDA a : ~is_column_full(board, a.column))

\* ConnectFourGameState.get_column_height: the run of pieces from the bottom row up
RECURSIVE get_column_height(_, _, _)
get_column_height(board, col_number, row) ==
    IF row < 1 THEN 0
    ELSE IF board[row][col_number + 1] # EMPTY
         THEN 1 + get_column_height(board, col_number, row - 1)
         ELSE 0

\* RoombaRaceGameState.is_legal_action, for a step of NEIGHBORING_STEPS
RoombaRaceIsLegal(positions, grid, player, action) ==
    LET my == positions[player + 1]
        new_pos == << my[1] + action.r, my[2] + action.c >>
    IN  /\ new_pos[1] >= 0 /\ new_pos[2] >= 0
        /\ new_pos[1] < Len(grid) /\ new_pos[2] < Len(grid[1])
        /\ grid[new_pos[1] + 1][new_pos[2] + 1] = FLOOR
        /\ ~InSeq(new_pos, positions)

RoombaRaceAllActions(positions, grid, player) ==
    SelectSeq(NEIGHBORING_STEPS, LAMBDA a : RoombaRaceIsLegal(positions, grid, player, a))

GameAllActions(bstore, limits, s) ==
    CASE s.kind = "Nim" -> NimActionsFrom(limits, s.board, 0)
      [] s.kind = "TicTacToe" -> TicTacToeAllActions(bstore[s.board])
      [] s.kind = "ConnectFour" -> ConnectFourAllActions(bstore[s.board])
      [] s.kind = "RoombaRace" ->
            RoombaRaceAllActions(bstore[s.positions], bstore[s.grid], s.current_player_index)

\* (current_player_index + 1) % len(player_names)
NextPlayer(s) == (s.current_player_index + 1) % Len(player_names(s.kind))

\* a board with one cell set (rows and columns counted from 0)
SetCell(board, row, col, v) ==
    [board EXCEPT ![row + 1] = [board[row + 1] EXCEPT ![col + 1] = v]]

\* get_next_state of the four games: the child and the store of the boards,
\* in which the deep copies it made are allocated
NimNextStateSameDepth(bstore, self, ref, action) ==
    [node |-> NimGameState([self.board EXCEPT ![action.pile + 1] = @ - action.stones],
                           ref, <<action>>, self.depth, NextPlayer(self)),
     boards |-> bstore]

NimNextState(bstore, self, ref, action) ==
    [node |-> NimGameState([self.board EXCEPT ![action.pile + 1] = @ - action.stones],
                           ref, <<action>>, self.depth + 1, NextPlayer(self)),
     boards |-> bstore]

TicTacToeNextState(bstore, self, ref, action) ==
    LET new_board == SetCell(bstore[self.board], action.row, action.col,
                             self.current_player_index)
    IN  [node |-> TicTacToeGameState(Len(bstore) + 1, ref, <<action>>, self.depth + 1,
                                     NextPlayer(self)),
         boards |-> Append(bstore, new_board)]

ConnectFourNextState(bstore, self, ref, action) ==
    LET board == bstore[self.board]
        r == ConnectFour_num_rows
                - get_column_height(board, action.column, ConnectFour_num_rows) - 1
        new_board == SetCell(board, r, action.column, self.current_player_index)
    IN  [node |-> ConnectFourGameState(Len(bstore) + 1, ref, <<action>>, self.depth + 1,
                                       NextPlayer(self)),
         boards |-> Append(bstore, new_board)]

RoombaRaceNextState(bstore, self, ref, action) ==
    LET my == bstore[self.positions][self.current_player_index + 1]
        new_grid == SetCell(bstore[self.grid], my[1], my[2], CLEANED)
        new_positions == [bstore[self.positions] EXCEPT
                             ![self.current_player_index + 1] =
                                 << my[1] + action.r, my[2] + action.c >>]
    IN  [node |-> RoombaRaceGameState(Len(bstore) + 2, Len(bstore) + 1, ref, <<action>>,
                                      self.depth + 1, NextPlayer(self)),
         boards |-> bstore \o << new_grid, new_positions >>]

GameNextState(bstore, self, ref, action) ==
    CASE self.kind = "Nim" -> NimNextState(bstore, self, ref, action)
      [] self.kind = "TicTacToe" -> TicTacToeNextState(bstore, self, ref, action)
      [] self.kind = "ConnectFour" -> ConnectFourNextState(bstore, self, ref, action)
      [] self.kind = "RoombaRace" -> RoombaRaceNextState(bstore, self, ref, action)

\* lab2 copy(self) with parent, depth and last_action reset: the copy shares
\* the board objects of the node and keeps its current_player_index
GameRootCopy(s) == [s EXCEPT !.parent = 0, !.depth = 0, !.last_action = <<>>]

\* lab2 get_as_root_node: the store with the copy allocated, and its address
game_get_as_root_node(store, ref) ==
    [store |-> Append(store, GameRootCopy(store[ref])), ref |-> Len(store) + 1]

\* lab2 StateNode.__hash__
GameNodeHash(bstore, s) == BuiltinHash(GameFeatures(bstore, s))

\* lab2 StateNode.__eq__
GameNodeEq(bstore, a, b) == a.kind = b.kind /\ GameFeatures(bstore, a) = GameFeatures(bstore, b)

(***************************************************************************)
(* lab2: is_endgame_state, endgame_utility and is_legal_action of the      *)
(* games.  A call ends by returning a value or by raising.                 *)
(***************************************************************************)
Returned(v) == [returned |-> TRUE, raised |-> "", result |-> <<v>>]
RaisedError(e) == [returned |-> FALSE, raised |-> e, result |-> <<>>]

\* NimGameState.is_endgame_state: all(pile == 0 for pile in self.board)
NimIsEndgameState(board) == \A i \in 1..Len(board) : board[i] = 0

\* an endgame_utility that reads the player to move at the node itself
NimEndgameUtilityOfMover(store, self, player_index) ==
    IF self.parent = 0 THEN RaisedError("AttributeError")
    ELSE IF self.current_player_index = player_index THEN Returned(-1)
    ELSE Returned(1)

\* NimGameState.endgame_utility: the player who moved at the parent took the
\* last stone; self.parent is read whatever it is, and None has no
\* attribute current_player_index
NimEndgameUtility(store, self, player_index) ==
    IF self.parent = 0 THEN RaisedError("AttributeError")
    ELSE IF store[self.parent].current_player_index = player_index THEN Returned(-1)
    ELSE Returned(1)

\* a player of TicTacToe holds a full row, column or diagonal
TicTacToeHasLine(board, player) ==
    \/ \E r \in 1..TicTacToe_num_rows :
          \A c \in 1..TicTacToe_num_cols : board[r][c] = player
    \/ \E c \in 1..TicTacToe_num_cols :
          \A r \in 1..TicTacToe_num_rows : board[r][c] = player
    \/ \A i \in 1..TicTacToe_num_rows : board[i][i] = player
    \/ \A i \in 1..TicTacToe_num_rows : board[TicTacToe_num_rows + 1 - i][i] = player

\* an endgame_utility that scores a line of the asking player only
TicTacToeEndgameUtilityOwnLine(board, player_index) ==
    IF TicTacToeHasLine(board, player_index) THEN Returned(1) ELSE Returned(0)

\* TicTacToeGameState.endgame_utility: the first player, in the order 0, 1,
\* who holds a line decides the value
TicTacToeEndgameUtility(board, player_index) ==
    IF TicTacToeHasLine(board, 0) THEN Returned(IF 0 = player_index THEN 1 ELSE -1)
    ELSE IF TicTacToeHasLine(board, 1) THEN Returned(IF 1 = player_index THEN 1 ELSE -1)
    ELSE Returned(0)

\* TicTacToeGameState.is_endgame_state
TicTacToeIsEndgameState(board) ==
    IF Len(TicTacToeAllActions(board)) = 0 THEN TRUE
    ELSE TicTacToeEndgameUtility(board, 0).result # <<0>>

\* ConnectFourGameState.get_num_chains_hor / _ver / _diag
get_num_chains_hor(board, chain_len, player_piece) ==
    Cardinality({ rc \in (0..(ConnectFour_num_rows - 1))
                          \X (0..(ConnectFour_num_cols - chain_len)) :
                    \A i \in 0..(chain_len - 1) :
                        board[rc[1] + 1][rc[2] + i + 1] = player_piece })

get_num_chains_ver(board, chain_len, player_piece) ==
    Cardinality({ cr \in (0..(ConnectFour_num_cols - 1))
                          \X (0..(ConnectFour_num_rows - chain_len)) :
                    \A i \in 0..(chain_len - 1) :
                        board[cr[2] + i + 1][cr[1] + 1] = player_piece })

get_num_chains_diag(board, chain_len, player_piece) ==
    Cardinality({ rc \in (0..(ConnectFour_num_rows - chain_len))
                          \X (0..(ConnectFour_num_cols - chain_len)) :
                    \A i \in 0..(chain_len - 1) :
                        board[rc[1] + i + 1][rc[2] + i + 1] = player_piece })
    + Cardinality({ rc \in ((chain_len - 1)..(ConnectFour_num_rows - 1))
                            \X (0..(ConnectFour_num_cols - chain_len)) :
                      \A i \in 0..(chain_len - 1) :
                          board[rc[1] - i + 1][rc[2] + i + 1] = player_piece })

get_num_chains(board, chain_len, player_piece) ==
    IF chain_len > 1
    THEN get_num_chains_hor(board, chain_len, player_piece)
         + get_num_chains_ver(board, chain_len, player_piece)
         + get_num_chains_diag(board, chain_len, player_piece)
    ELSE get_num_chains_hor(board, chain_len, player_piece)

\* ConnectFourGameState.endgame_utility
ConnectFourEndgameUtility(board, player_index) ==
    IF get_num_chains(board, 4, 0) # 0 THEN Returned(IF 0 = player_index THEN 1 ELSE -1)
    ELSE IF get_num_chains(board, 4, 1) # 0 THEN Returned(IF 1 = player_index THEN 1 ELSE -1)
    ELSE Returned(0)

\* ConnectFourGameState.is_endgame_state
ConnectFourIsEndgameState(board) ==
    IF Len(ConnectFourAllActions(board)) = 0 THEN TRUE
    ELSE ConnectFourEndgameUtility(board, 0).result # <<0>>

\* RoombaRaceGameState.endgame_utility: the player to move has lost
RoombaRaceEndgameUtility(self, player_index) ==
    IF self.current_player_index # player_index THEN Returned(1) ELSE Returned(-1)

is_endgame_state(bstore, limits, s) ==
    CASE s.kind = "Nim" -> NimIsEndgameState(s.board)
      [] s.kind = "TicTacToe" -> TicTacToeIsEndgameState(bstore[s.board])
      [] s.kind = "ConnectFour" -> ConnectFourIsEndgameState(bstore[s.board])
      [] s.kind = "RoombaRace" ->
            Len(RoombaRaceAllActions(bstore[s.positions], bstore[s.grid],
                                     s.current_player_index)) = 0

endgame_utility(store, bstore, s, player_index) ==
    CASE s.kind = "Nim" -> NimEndgameUtility(store, s, player_index)
      [] s.kind = "TicTacToe" -> TicTacToeEndgameUtility(bstore[s.board], player_index)
      [] s.kind = "ConnectFour" -> ConnectFourEndgameUtility(bstore[s.board], player_index)
      [] s.kind = "RoombaRace" -> RoombaRaceEndgameUtility(s, player_index)

\* eval_functions.py endgame_score_heur_zero_eval_fn
endgame_score_heur_zero_eval_fn(store, bstore, limits, state, player_index) ==
    IF is_endgame_state(bstore, limits, state)
    THEN endgame_utility(store, bstore, state, player_index)
    ELSE Returned(0)

\* an is_legal_action that lets a move take no stone
NimIsLegalActionZeroStones(limits, board, action) ==
    /\ StonesAllowed(limits, action.stones)
    /\ action.pile >= 0 /\ action.pile < Len(board)
    /\ board[action.pile + 1] >= action.stones /\ action.stones >= 0

\* NimGameState.is_legal_action
NimIsLegalAction(limits, board, action) ==
    /\ StonesAllowed(limits, action.stones)
    /\ action.pile >= 0 /\ action.pile < Len(board)
    /\ board[action.pile + 1] >= action.stones /\ action.stones > 0

\* TicTacToeGameState.is_legal_action
TicTacToeIsLegalAction(board, action) ==
    IF action.col \notin 0..(TicTacToe_num_cols - 1)
       \/ action.row \notin 0..(TicTacToe_num_rows - 1)
    THEN FALSE
    ELSE board[action.row + 1][action.col + 1] = EMPTY

\* ConnectFourGameState.is_legal_action
ConnectFourIsLegalAction(board, action) ==
    /\ action.column \in 0..(ConnectFour_num_cols - 1)
    /\ ~is_column_full(board, action.column)

\* RoombaRaceGameState.is_legal_action, for any relative coordinate
RoombaRaceIsLegalAction(positions, grid, player, action) ==
    IF ~InSeq(action, NEIGHBORING_STEPS) THEN FALSE
    ELSE RoombaRaceIsLegal(positions, grid, player, action)

GameIsLegalAction(bstore, limits, s, action) ==
    CASE s.kind = "Nim" -> NimIsLegalAction(limits, s.board, action)
      [] s.kind = "TicTacToe" -> TicTacToeIsLegalAction(bstore[s.board], action)
      [] s.kind = "ConnectFour" -> ConnectFourIsLegalAction(bstore[s.board], action)
      [] s.kind = "RoombaRace" ->
            RoombaRaceIsLegalAction(bstore[s.positions], bstore[s.grid],
                                    s.current_player_index, action)

(***************************************************************************)
(* lab2: the text form of the actions.  A str is the sequence of its       *)
(* characters; a Python value carries its type, and values of different    *)
(* types are never equal.                                                  *)
(***************************************************************************)
PyTuple(items) == [py |-> "tuple", v |-> items]
PyInt(n) == [py |-> "int", v |-> <<n>>]
PyNone == [py |-> "NoneType", v |-> <<>>]

\* x == y for two Python values (tuple.__eq__, int.__eq__)
PyEq(x, y) == x.py = y.py /\ x.v = y.v

\* the object of an action: every action class is a NamedTuple, a tuple of
\* its fields
ActionObject(kind, a) ==
    CASE kind = "Nim" -> PyTuple(<< a.stones, a.pile >>)
      [] kind = "TicTacToe" -> PyTuple(<< a.row, a.col >>)
      [] kind = "ConnectFour" -> PyTuple(<< a.column >>)
      [] kind = "RoombaRace" -> PyTuple(<< a.r, a.c >>)

DIGITS == << "0", "1", "2", "3", "4", "5", "6", "7", "8", "9" >>
WHITESPACE == { " ", "\t", "\n" }

\* str(n) for an int n
RECURSIVE NatToStr(_)
NatToStr(n) == IF n < 10 THEN << DIGITS[n + 1] >>
               ELSE NatToStr(n \div 10) \o << DIGITS[(n % 10) + 1] >>

IntToStr(n) == IF n < 0 THEN << "-" >> \o NatToStr(-n) ELSE NatToStr(n)

\* "{} {}".format(a, b)
Format2(a, b) == IntToStr(a) \o << " " >> \o IntToStr(b)

\* text.split(): the maximal runs of characters that are not whitespace
RECURSIVE SplitFrom(_, _, _)
SplitFrom(text, i, word) ==
    IF i > Len(text) THEN (IF word = <<>> THEN <<>> ELSE << word >>)
    ELSE IF text[i] \in WHITESPACE
         THEN (IF word = <<>> THEN <<>> ELSE << word >>) \o SplitFrom(text, i + 1, <<>>)
         ELSE SplitFrom(text, i + 1, Append(word, text[i]))

split(text) == SplitFrom(text, 1, <<>>)

DigitValue(ch) == CHOOSE d \in 0..9 : DIGITS[d + 1] = ch

RECURSIVE DigitsValue(_, _)
DigitsValue(digits, acc) ==
    IF digits = <<>> THEN acc
    ELSE DigitsValue(Tail(digits), 10 * acc + DigitValue(Head(digits)))

\* text.strip()
RECURSIVE lstrip(_)
lstrip(text) == IF text # <<>> /\ Head(text) \in WHITESPACE THEN lstrip(Tail(text)) ELSE text

RECURSIVE rstrip(_)
rstrip(text) ==
    IF text # <<>> /\ text[Len(text)] \in WHITESPACE
    THEN rstrip(SubSeq(text, 1, Len(text) - 1))
    ELSE text

\* int(text): surrounding whitespace is dropped, then an optional sign and at
\* least one decimal digit; anything else raises ValueError
int(text) ==
    LET t == rstrip(lstrip(text))
        signed == t # <<>> /\ Head(t) \in {"-", "+"}
        digits == IF signed THEN Tail(t) ELSE t
    IN  IF digits = <<>> \/ \E i \in 1..Len(digits) : ~InSeq(digits[i], DIGITS)
        THEN RaisedError("ValueError")
        ELSE Returned(IF signed /\ Head(t) = "-" THEN 0 - DigitsValue(digits, 0)
                      ELSE DigitsValue(digits, 0))

\* str.upper() of one character, for the letters the action names use
LOWER == << "n", "e", "s", "w", "o", "r", "t", "h", "a", "u", "i", "f" >>
UPPER == << "N", "E", "S", "W", "O", "R", "T", "H", "A", "U", "I", "F" >>
upper(ch) == IF InSeq(ch, LOWER) THEN UPPER[CHOOSE i \in 1..Len(LOWER) : LOWER[i] = ch] ELSE ch

\* roomba_game.py NEIGHBORING_STEPS[action]: the name of a step
StepName(a) ==
    CASE a = RoombaRaceAction(-1, 0) -> << "N", "o", "r", "t", "h" >>
      [] a = RoombaRaceAction(0, 1) -> << "E", "a", "s", "t" >>
      [] a = RoombaRaceAction(1, 0) -> << "S", "o", "u", "t", "h" >>
      [] a = RoombaRaceAction(0, -1) -> << "W", "e", "s", "t" >>

\* roomba_game.py STR_TO_ACTIONS
STR_TO_ACTIONS(key) ==
    CASE key = "N" -> Returned(PyTuple(<< -1, 0 >>))
      [] key = "E" -> Returned(PyTuple(<< 0, 1 >>))
      [] key = "S" -> Returned(PyTuple(<< 1, 0 >>))
      [] key = "W" -> Returned(PyTuple(<< 0, -1 >>))
      [] OTHER -> RaisedError("KeyError")

\* action.action_to_str(): NimAction, TicTacToeAction and ConnectFourAction
\* override it; RoombaRaceAction inherits Action.action_to_str, str(self)
action_to_str(kind, a) ==
    CASE kind = "Nim" -> Format2(a.stones, a.pile)
      [] kind = "TicTacToe" -> Format2(a.row, a.col)
      [] kind = "ConnectFour" -> IntToStr(a.column)
      [] kind = "RoombaRace" -> StepName(a)

\* `x, y = (int(w) for w in text.split())`: ValueError when a word is not an
\* int or when there are not exactly two words
TwoInts(text) ==
    LET words == split(text)
    IN  IF Len(words) = 2 /\ int(words[1]).returned /\ int(words[2]).returned
        THEN Returned(PyTuple(<< int(words[1]).result[1], int(words[2]).result[1] >>))
        ELSE RaisedError("ValueError")

\* action_type.str_to_action(text): the value returned, None after the error
\* the method catches.  ConnectFourAction.str_to_action returns int(text), an
\* int and not a ConnectFourAction
str_to_action(kind, text) ==
    CASE kind = "Nim" ->
            IF TwoInts(text).returned THEN TwoInts(text) ELSE Returned(PyNone)
      [] kind = "TicTacToe" ->
            IF TwoInts(text).returned THEN TwoInts(text) ELSE Returned(PyNone)
      [] kind = "ConnectFour" ->
            IF int(text).returned THEN Returned(PyInt(int(text).result[1]))
            ELSE Returned(PyNone)
      [] kind = "RoombaRace" ->
            IF text = <<>> THEN RaisedError("IndexError")
            ELSE IF STR_TO_ACTIONS(upper(text[1])).returned
                 THEN STR_TO_ACTIONS(upper(text[1]))
                 ELSE Returned(PyNone)

\* HumanTextInputAgent.pick_action: the typed text is taken when
\* str_to_action(text) is `in state.get_all_actions()`
InputAccepted(kind, text, actions) ==
    /\ str_to_action(kind, text).returned
    /\ \E i \in 1..Len(actions) :
          PyEq(ActionObject(kind, actions[i]), str_to_action(kind, text).result[1])

(***************************************************************************)
(* The initial states of a search: the files read by readFromFile          *)
(***************************************************************************)
Layouts ==
    { << <<a, b>>, <<c, d>> >> : a \in {FLOOR, WALL, DIRTY_FLOOR, CARPET},
                                 b \in {FLOOR, WALL, DIRTY_FLOOR, CARPET},
                                 c \in {FLOOR, WALL, DIRTY_FLOOR, CARPET},
                                 d \in {FLOOR, WALL, DIRTY_FLOOR, CARPET} }

\* RoombaState.readFromFile: a root on the layout, the roomba on a cell of it
RoombaInitialStates ==
    { RoombaState(Coordinate(r, c), g, 0, <<>>, 0, 0) :
        r \in 0..1, c \in 0..1, g \in Layouts }

\* layouts for the spotless roomba: a ring of four cells with one dirty spot,
\* or a corridor of three cells with up to two
SpotlessLayouts ==
    { g \in { << <<a, b>>, <<c, d>> >> : a \in {FLOOR, DIRTY_FLOOR},
                                         b \in {FLOOR, CARPET},
                                         c \in {FLOOR, WALL},
                                         d \in {FLOOR, DIRTY_CARPET} } :
        g[2][1] = WALL \/ g[2][2] = FLOOR }

SpotlessInitialStates ==
    { SpotlessFromFile(r, c, g) : r \in 0..1, c \in 0..1, g \in SpotlessLayouts }

\* the 2-by-2 puzzles: every arrangement of the tiles 0..3
SlideInitialStates ==
    { SlideFromFile(<< <<t[1], t[2]>>, <<t[3], t[4]>> >>) :
        t \in { u \in [1..4 -> 0..3] : \A i, j \in 1..4 : u[i] = u[j] => i = j } }

\* the roots a search can be started from: the roomba stands on a cell that is
\* not a wall
InitialStates ==
    { s \in RoombaInitialStates \cup SpotlessInitialStates :
        is_valid_position(s, s.position) } \cup SlideInitialStates

Cutoffs == (0..MaxCutoff) \cup {INF}

Init ==
    /\ \E s \in InitialStates : nodes = <<s>>
    /\ boards = <<>>
    /\ picked = {}
    /\ roots = <<>>
    /\ move_limits = NoLimits
    /\ alg \in {"tree", "graph"}
    /\ strat \in {"random", "dfs", "bfs", "ucs"}
    /\ cutoff \in Cutoffs
    /\ pc = "call"
    /\ frontier = <<>>
    /\ ext_filter = {}
    /\ current_node = 0
    /\ todo = <<>>
    /\ extended = FALSE
    /\ total_extends = 0
    /\ total_enqueues = 0
    /\ result = 0
    /\ cb_stop = FALSE
    /\ admitted = <<>>
    /\ extend_log = <<>>
    /\ called = NoCall
    /\ app = NoController

Next == SearchCall \/ ReturnEmpty \/ LoopStep \/ ExpandChild \/ ExpandDone

Spec == Init /\ [][Next]_vars

\* search() is one sequential call: a statement that can run does run, so a
\* search that has not returned takes its next step
\* The roots of the searches checked for termination: the spotless roomba
\* files, the slide puzzles whose empty square is the last one (half of
\* them cannot be solved), and the roomba on layouts of floor and walls,
\* where no goal exists and every move can be taken back.
TerminationStates ==
    { s \in InitialStates :
        /\ s.kind = "Roomba" =>
               \A r \in 1..get_height(s), c \in 1..get_width(s) :
                   s.grid[r][c] \in {FLOOR, WALL}
        /\ s.kind = "SlidePuzzle" => s.empty_pos = Coordinate(1, 1) }

\* a tree search without a cutoff need not return and is left out
FairInit ==
    /\ Init
    /\ nodes[1] \in TerminationStates
    /\ alg = "tree" => cutoff # INF

FairSpec == FairInit /\ [][Next]_vars /\ WF_vars(Next)

(***************************************************************************)
(* An agent object whose search() is called more than once (AgentSpec):    *)
(* __init__ creates the frontier and zeroes the counters once, search()    *)
(* starts with self.enqueue(initial_state) each time.                      *)
(***************************************************************************)
\* at most this many calls of search() on one agent object
MaxCalls == 2

\* the agent is constructed as in Init; the roomba starts in the corner of a
\* grid whose one dirty cell is the opposite corner
AgentInit ==
    /\ Init
    /\ nodes[1].kind = "Roomba"
    /\ nodes[1].position = Coordinate(0, 0)
    /\ nodes[1].grid[1][1] = FLOOR
    /\ nodes[1].grid[2][2] = DIRTY_FLOOR
    /\ nodes[1].grid[1][2] # DIRTY_FLOOR
    /\ nodes[1].grid[2][1] # DIRTY_FLOOR

\* a further call agent.search(state.get_as_root_node(), callback, cutoff) on
\* the agent whose earlier call has returned: the locals of search() are new
\* (ext_filter is created empty), the fields of the agent are what the earlier
\* call left, and the root is enqueued
SearchAgain ==
    /\ pc = "done"
    /\ Len(roots) < MaxCalls - 1
    /\ LET r == get_as_root_node(nodes, 1)
       IN  /\ nodes' = r.store
           /\ roots' = Append(roots, << 1, r.ref >>)
           /\ frontier' = enqueue(strat, r.store, frontier, r.ref, INF)
           /\ admitted' = << r.ref >>
    /\ ext_filter' = {}
    /\ current_node' = 0
    /\ todo' = <<>>
    /\ extended' = FALSE
    /\ result' = 0
    /\ cb_stop' = FALSE
    /\ extend_log' = <<>>
    /\ pc' = "loop"
    /\ UNCHANGED <<callVars, boards, picked, move_limits, alg, strat, cutoff, total_extends,
                   total_enqueues>>

AgentNext == Next \/ SearchAgain

AgentSpec == AgentInit /\ [][AgentNext]_vars

(***************************************************************************)
(* lab2/game_algorithms.py: the search agents                              *)
(***************************************************************************)
\* MinimaxSearchAgent.pick_action and AlphaBetaSearchAgent.pick_action: both
\* bodies are `raise NotImplementedError`; the counters stay as
\* reset_total_counts left them, and self.gui_callback_fn, whatever it would
\* answer (gui_callback_stops), is never called
pick_action(agent, state, gui_callback_stops) ==
    CASE agent = "Minimax" ->
            [returned |-> FALSE, raised |-> "NotImplementedError", result |-> <<>>,
             total_nodes |-> 0]
      [] agent = "AlphaBeta" ->
            [returned |-> FALSE, raised |-> "NotImplementedError", result |-> <<>>,
             total_nodes |-> 0]

\* IterativeDeepeningSearchAgent.iterative_pick_action: the body is
\* `raise NotImplementedError`, no pass is made and no history is returned
iterative_pick_action(state) ==
    [returned |-> FALSE, raised |-> "NotImplementedError", result |-> <<>>,
     total_nodes |-> 0]

(***************************************************************************)
(* lab1/search_algorithms.py: the informed agents                          *)
(***************************************************************************)
\* AnytimeSearchAlgorithm.search: the body is `return None`, whatever the
\* state, the callback and the cutoff are; nothing is enqueued or extended
anytime_search(initial_state, limit) ==
    [returned |-> TRUE, raised |-> "", result |-> <<>>, total_nodes |-> 0]

\* AStarSearch.enqueue: the body is `raise NotImplementedError`
astar_enqueue(state, limit) ==
    [returned |-> FALSE, raised |-> "NotImplementedError", result |-> <<>>,
     total_nodes |-> 0]

\* AStarSearch.dequeue: the body is `raise NotImplementedError`
astar_dequeue ==
    [returned |-> FALSE, raised |-> "NotImplementedError", result |-> <<>>,
     total_nodes |-> 0]

(***************************************************************************)
(* Nodes of every problem under get_next_state and get_as_root_node, and   *)
(* the game agents called on them (NodeSpec).                              *)
(***************************************************************************)
\* at most this many operations (get_next_state, get_as_root_node, pick_action)
\* are applied to the nodes grown from one initial state
MaxOps == 3

\* state features of the node at an address, for a node of either lab
FeaturesAt(store, bstore, ref) ==
    IF IsGame(store[ref]) THEN GameFeatures(bstore, store[ref])
    ELSE get_state_features(store[ref])

EmptyBoard(rows, cols) == [r \in 1..rows |-> [c \in 1..cols |-> EMPTY]]

\* defaultInitialState() of the four games
GameDefaults ==
    { [node |-> NimGameState(<<3, 4, 5>>, 0, <<>>, 0, 0), boards |-> <<>>,
       limits |-> NoLimits],
      [node |-> TicTacToeGameState(1, 0, <<>>, 0, 0),
       boards |-> << EmptyBoard(TicTacToe_num_rows, TicTacToe_num_cols) >>,
       limits |-> NoLimits],
      [node |-> ConnectFourGameState(1, 0, <<>>, 0, 0),
       boards |-> << EmptyBoard(ConnectFour_num_rows, ConnectFour_num_cols) >>,
       limits |-> NoLimits],
      [node |-> RoombaRaceGameState(2, 1, 0, <<>>, 0, 0),
       boards |-> << [r \in 1..5 |-> [c \in 1..7 |-> FLOOR]], << <<2, 1>>, <<2, 5>> >> >>,
       limits |-> NoLimits] }

\* readFromFile() of the games on small files
GameFiles ==
    { [node |-> NimGameState(b, 0, <<>>, 0, 0), boards |-> <<>>, limits |-> l] :
        b \in { <<1, 2>>, <<2, 0, 1>> }, l \in { NoLimits, Limits(<<1>>) } }
    \cup
    { [node |-> TicTacToeGameState(1, 0, <<>>, 0, p),
       boards |-> << << <<0, 1, 0>>, <<1, 0, 1>>, <<EMPTY, 0, EMPTY>> >> >>,
       limits |-> NoLimits] : p \in 0..1 }
    \cup
    { [node |-> RoombaRaceGameState(2, 1, 0, <<>>, 0, 0),
       boards |-> << << <<FLOOR, FLOOR, WALL>>, <<FLOOR, FLOOR, FLOOR>> >>,
                     << <<0, 0>>, <<1, 2>> >> >>,
       limits |-> NoLimits] }

NodeRoots ==
    GameDefaults \cup GameFiles
    \cup { [node |-> s, boards |-> <<>>, limits |-> NoLimits] :
              s \in { x \in InitialStates :
                        x.kind = "Roomba" => x.position = Coordinate(0, 0) } }

\* the operations applied so far
OpsDone == (Len(nodes) - 1) + Cardinality(picked)

NodeInit ==
    /\ \E r \in NodeRoots :
         /\ nodes = << r.node >>
         /\ boards = r.boards
         /\ move_limits = r.limits
    /\ picked = {}
    /\ roots = <<>>
    /\ alg = "tree"
    /\ strat = "bfs"
    /\ cutoff = INF
    /\ pc = "idle"
    /\ frontier = <<>>
    /\ ext_filter = {}
    /\ current_node = 0
    /\ todo = <<>>
    /\ extended = FALSE
    /\ total_extends = 0
    /\ total_enqueues = 0
    /\ result = 0
    /\ cb_stop = FALSE
    /\ admitted = <<>>
    /\ extend_log = <<>>
    /\ called = NoCall
    /\ app = NoController

\* lab1: n.get_next_state(a) for a node n and a legal action a
GetNextState ==
    /\ OpsDone < MaxOps
    /\ \E ref \in 1..Len(nodes) :
         /\ ~IsGame(nodes[ref])
         /\ \E k \in 1..Len(get_all_actions(nodes[ref])) :
              nodes' = Append(nodes, get_next_state(nodes[ref], ref,
                                                    get_all_actions(nodes[ref])[k]))
    /\ UNCHANGED <<callVars, searchVars, gameVars>>

\* lab1: n.get_as_root_node()
GetAsRootNode ==
    /\ OpsDone < MaxOps
    /\ Len(roots) < MaxOps
    /\ \E ref \in 1..Len(nodes) :
         /\ ~IsGame(nodes[ref])
         /\ LET r == get_as_root_node(nodes, ref)
            IN  /\ nodes' = r.store
                /\ roots' = Append(roots, << ref, r.ref >>)
    /\ UNCHANGED <<callVars, searchVars, boards, picked, move_limits>>

\* lab2: n.get_next_state(a) for a game node n and a legal action a
GameGetNextState ==
    /\ OpsDone < MaxOps
    /\ \E ref \in 1..Len(nodes) :
         /\ IsGame(nodes[ref])
         /\ \E k \in 1..Len(GameAllActions(boards, move_limits, nodes[ref])) :
              LET r == GameNextState(boards, nodes[ref], ref,
                                     GameAllActions(boards, move_limits, nodes[ref])[k])
              IN  /\ nodes' = Append(nodes, r.node)
                  /\ boards' = r.boards
    /\ UNCHANGED <<callVars, searchVars, picked, roots, move_limits>>

\* lab2: n.get_as_root_node()
GameGetAsRootNode ==
    /\ OpsDone < MaxOps
    /\ Len(roots) < MaxOps
    /\ \E ref \in 1..Len(nodes) :
         /\ IsGame(nodes[ref])
         /\ LET r == game_get_as_root_node(nodes, ref)
            IN  /\ nodes' = r.store
                /\ roots' = Append(roots, << ref, r.ref >>)
    /\ UNCHANGED <<callVars, searchVars, boards, picked, move_limits>>

\* agent.pick_action(state) for a minimax or an alpha-beta agent
PickAction ==
    /\ OpsDone < MaxOps
    /\ \E ref \in 1..Len(nodes), agent \in {"Minimax", "AlphaBeta"}, stop \in BOOLEAN :
         /\ IsGame(nodes[ref])
         /\ \A p \in picked : ~(p.agent = agent /\ p.node = ref /\ p.stop = stop)
         /\ picked' = picked \cup
                { [agent |-> agent, node |-> ref, stop |-> stop,
                   outcome |-> pick_action(agent, nodes[ref], stop)] }
    /\ UNCHANGED <<callVars, nodes, searchVars, boards, roots, move_limits>>

\* agent.iterative_pick_action(state) for an iterative deepening agent, as
\* IterativeDeepeningSearchAgentWrapper.choose_action calls it
IterativePickAction ==
    /\ OpsDone < MaxOps
    /\ \E ref \in 1..Len(nodes) :
         /\ IsGame(nodes[ref])
         /\ \A p \in picked : ~(p.agent = "IterativeDeepening" /\ p.node = ref)
         /\ picked' = picked \cup
                { [agent |-> "IterativeDeepening", node |-> ref, stop |-> FALSE,
                   outcome |-> iterative_pick_action(nodes[ref])] }
    /\ UNCHANGED <<callVars, nodes, searchVars, boards, roots, move_limits>>

\* agent.search(state, callback, cutoff) for an agent of an anytime class
AnytimeSearch ==
    /\ OpsDone < MaxOps
    /\ \E ref \in 1..Len(nodes), limit \in Cutoffs :
         /\ ~IsGame(nodes[ref])
         /\ \A p \in picked : ~(p.agent = "Anytime" /\ p.node = ref)
         /\ picked' = picked \cup
                { [agent |-> "Anytime", node |-> ref, stop |-> FALSE,
                   outcome |-> anytime_search(nodes[ref], limit)] }
    /\ UNCHANGED <<callVars, nodes, searchVars, boards, roots, move_limits>>

\* agent.enqueue(state, cutoff) for an agent with the A* strategy
AStarEnqueue ==
    /\ OpsDone < MaxOps
    /\ \E ref \in 1..Len(nodes), limit \in Cutoffs :
         /\ ~IsGame(nodes[ref])
         /\ \A p \in picked : ~(p.agent = "AStar.enqueue" /\ p.node = ref)
         /\ picked' = picked \cup
                { [agent |-> "AStar.enqueue", node |-> ref, stop |-> FALSE,
                   outcome |-> astar_enqueue(nodes[ref], limit)] }
    /\ UNCHANGED <<callVars, nodes, searchVars, boards, roots, move_limits>>

\* agent.dequeue() for an agent with the A* strategy, after an enqueue
AStarDequeue ==
    /\ OpsDone < MaxOps
    /\ \E p \in picked : p.agent = "AStar.enqueue"
    /\ \A p \in picked : p.agent # "AStar.dequeue"
    /\ picked' = picked \cup
           { [agent |-> "AStar.dequeue", node |-> 0, stop |-> FALSE,
             outcome |-> astar_dequeue] }
    /\ UNCHANGED <<callVars, nodes, searchVars, boards, roots, move_limits>>

NodeNext ==
    \/ GetNextState \/ GetAsRootNode \/ GameGetNextState \/ GameGetAsRootNode
    \/ PickAction \/ IterativePickAction \/ AnytimeSearch \/ AStarEnqueue
    \/ AStarDequeue

NodeSpec == NodeInit /\ [][NodeNext]_vars

(***************************************************************************)
(* The methods of the nodes that evaluate a state or an action, called on  *)
(* nodes grown from an initial state (MethodSpec).                         *)
(***************************************************************************)
\* the calls are made on stores of at most this many nodes
MaxMethodNodes == 3
\* the fields of the actions handed to is_legal_action are drawn from
\* -ArgBelow..ArgMax
ArgBelow == 1
ArgMax == 3

\* readFromFile() of the games on files that are a move or two from the end
MethodFiles ==
    { [node |-> NimGameState(b, 0, <<>>, 0, 0), boards |-> <<>>, limits |-> l] :
        b \in { <<0, 1>>, <<1, 1>> }, l \in { NoLimits, Limits(<<1, 3>>) } }
    \cup
    { [node |-> TicTacToeGameState(1, 0, <<>>, 0, 0),
       boards |-> << << <<0, 1, 0>>, <<0, 1, 1>>, <<1, 0, EMPTY>> >> >>,
       limits |-> NoLimits] }
    \cup
    { [node |-> ConnectFourGameState(1, 0, <<>>, 0, p),
       boards |-> << [r \in 1..ConnectFour_num_rows |-> [c \in 1..ConnectFour_num_cols |->
                        IF r >= 4 /\ c = 1 THEN 0
                        ELSE IF r >= 4 /\ c = 2 THEN 1
                        ELSE EMPTY]] >>,
       limits |-> NoLimits] : p \in 0..1 }

MethodRoots == NodeRoots \cup MethodFiles

MethodInit ==
    /\ \E r \in MethodRoots :
         /\ nodes = << r.node >>
         /\ boards = r.boards
         /\ move_limits = r.limits
    /\ picked = {}
    /\ roots = <<>>
    /\ alg = "tree"
    /\ strat = "bfs"
    /\ cutoff = INF
    /\ pc = "idle"
    /\ frontier = <<>>
    /\ ext_filter = {}
    /\ current_node = 0
    /\ todo = <<>>
    /\ extended = FALSE
    /\ total_extends = 0
    /\ total_enqueues = 0
    /\ result = 0
    /\ cb_stop = FALSE
    /\ admitted = <<>>
    /\ extend_log = <<>>
    /\ called = NoCall
    /\ app = NoController

\* the values of a problem's action type with fields in -ArgBelow..ArgMax (a
\* ConnectFour column up to the number of columns)
ActionsOfType(kind) ==
    CASE kind = "Nim" -> { NimAction(x, y) : x, y \in (-ArgBelow)..ArgMax }
      [] kind = "TicTacToe" -> { TicTacToeAction(x, y) : x, y \in (-ArgBelow)..ArgMax }
      [] kind = "ConnectFour" ->
            { ConnectFourAction(x) : x \in (-ArgBelow)..ConnectFour_num_cols }
      [] kind = "RoombaRace" -> { RoombaRaceAction(x, y) : x, y \in (-ArgBelow)..ArgMax }
      [] OTHER -> { Coordinate(x, y) : x, y \in (-ArgBelow)..ArgMax }

\* get_all_actions() of a node of either lab
AllActionsAt(ref) ==
    IF IsGame(nodes[ref]) THEN GameAllActions(boards, move_limits, nodes[ref])
    ELSE get_all_actions(nodes[ref])

\* the nodes are grown first, then one method is called on one of them
GrowNodes ==
    /\ called = NoCall
    /\ Len(nodes) < MaxMethodNodes
    /\ (GetNextState \/ GameGetNextState \/ GameGetAsRootNode)

\* endgame_score_heur_zero_eval_fn(state, player_index) for a game node
EvalFn ==
    /\ called = NoCall
    /\ \E ref \in 1..Len(nodes), player_index \in 0..1 :
         /\ IsGame(nodes[ref])
         /\ called' = [op |-> "endgame_score_heur_zero_eval_fn", node |-> ref,
                       arg |-> << player_index >>,
                       outcome |-> endgame_score_heur_zero_eval_fn(
                                       nodes, boards, move_limits, nodes[ref], player_index)]
    /\ UNCHANGED <<app, nodes, searchVars, gameVars>>

\* state.action_type.str_to_action(a.action_to_str()) for an action a of
\* state.get_all_actions()
StrToAction ==
    /\ called = NoCall
    /\ \E ref \in 1..Len(nodes) :
         /\ IsGame(nodes[ref])
         /\ \E k \in 1..Len(AllActionsAt(ref)) :
              LET a == AllActionsAt(ref)[k]
              IN  called' = [op |-> "str_to_action", node |-> ref, arg |-> << a >>,
                             outcome |-> str_to_action(nodes[ref].kind,
                                            action_to_str(nodes[ref].kind, a))]
    /\ UNCHANGED <<app, nodes, searchVars, gameVars>>

\* state.is_legal_action(a) for an action a of the problem's action type
IsLegalAction ==
    /\ called = NoCall
    /\ \E ref \in 1..Len(nodes) :
         \E a \in ActionsOfType(nodes[ref].kind)
                    \cup { AllActionsAt(ref)[k] : k \in 1..Len(AllActionsAt(ref)) } :
            called' = [op |-> "is_legal_action", node |-> ref, arg |-> << a >>,
                       outcome |->
                           Returned(IF IsGame(nodes[ref])
                                    THEN GameIsLegalAction(boards, move_limits, nodes[ref], a)
                                    ELSE is_legal_action(nodes[ref], a))]
    /\ UNCHANGED <<app, nodes, searchVars, gameVars>>

MethodNext == GrowNodes \/ EvalFn \/ StrToAction \/ IsLegalAction

MethodSpec == MethodInit /\ [][MethodNext]_vars

(***************************************************************************)
(* lab1_part1/search_gui.py: the Search_GUI_Controller, its statuses and   *)
(* the buttons of the Search_GUI (GuiSpec).  `app` holds the controller:   *)
(* status, the state of each button (TRUE for NORMAL), the text of the     *)
(* cutoff spinbox, and the position of run_search() and of the search it   *)
(* called.  Tk handles a click only while gui.update() runs: when no       *)
(* search is running, and inside sleep_update_tk.                          *)
(***************************************************************************)
\* a behaviour makes at most this many run requests, a search dequeues at most
\* this many nodes and gives each at most this many children
MaxRequests == 2
MaxDequeues == 2
MaxChildren == 1

WaitingStatuses ==
    { "Initial_Waiting", "Interactive_Waiting", "Finished_Success_Waiting",
      "Finished_Failure_Waiting", "Terminated_Waiting" }

RunningStatuses ==
    { "Running", "Running_Step", "Running_Paused", "Running_Blind", "Running_Terminating" }

\* <Status>.is_valid_transition_to(next_status)
is_valid_transition_to(status, next_status) ==
    CASE status = "Initiating" -> next_status = "Initial_Waiting"
      [] status = "Initial_Waiting" ->
            next_status \in { "Interactive_Waiting", "Running", "Running_Paused",
                              "Running_Step", "Running_Blind" }
      [] status = "Interactive_Waiting" ->
            next_status \in { "Initial_Waiting", "Running", "Running_Paused",
                              "Running_Step", "Running_Blind" }
      [] status \in { "Finished_Success_Waiting", "Finished_Failure_Waiting",
                      "Terminated_Waiting" } ->
            next_status \in { "Initial_Waiting", "Interactive_Waiting", "Running",
                              "Running_Paused", "Running_Step", "Running_Blind" }
      [] status = "Running" ->
            next_status \in { "Running_Paused", "Running_Step", "Running_Blind",
                              "Running_Terminating", "Finished_Success_Waiting",
                              "Finished_Failure_Waiting", "Algorithm_Error" }
      [] status = "Running_Step" ->
            next_status \in { "Running_Paused", "Running", "Running_Blind",
                              "Running_Terminating", "Finished_Success_Waiting",
                              "Finished_Failure_Waiting", "Algorithm_Error" }
      [] status = "Running_Paused" ->
            next_status \in { "Running_Step", "Running", "Running_Blind",
                              "Running_Terminating", "Finished_Success_Waiting",
                              "Finished_Failure_Waiting", "Algorithm_Error" }
      [] status = "Running_Blind" ->
            next_status \in { "Finished_Success_Waiting", "Finished_Failure_Waiting",
                              "Algorithm_Error" }
      [] status = "Running_Terminating" ->
            next_status \in { "Terminated_Waiting", "Algorithm_Error",
                              "Finished_Failure_Waiting", "Finished_Success_Waiting" }
      [] OTHER -> FALSE

\* Waiting_Base.update_ui and Running_Base.update_ui
Waiting_Base_update_ui(a) ==
    [a EXCEPT !.reset_button = TRUE, !.cutoff_spinbox = TRUE, !.run_pause_button = TRUE,
              !.step_button = TRUE, !.fly_blind_search_button = TRUE]

Running_Base_update_ui(a) ==
    [a EXCEPT !.reset_button = TRUE, !.cutoff_spinbox = FALSE,
              !.fly_blind_search_button = FALSE]

AllButtonsDisabled(a) ==
    [a EXCEPT !.reset_button = FALSE, !.run_pause_button = FALSE, !.step_button = FALSE,
              !.fly_blind_search_button = FALSE]

\* <Status>.update_ui(gui): what the status a.status does to the widgets
update_ui(a) ==
    CASE a.status = "Initial_Waiting" ->
            [Waiting_Base_update_ui(a) EXCEPT !.reset_button = FALSE]
      [] a.status = "Interactive_Waiting" -> [a EXCEPT !.reset_button = TRUE]
      [] a.status \in { "Finished_Success_Waiting", "Finished_Failure_Waiting" } ->
            [Waiting_Base_update_ui(a) EXCEPT !.run_pause_button = FALSE,
                                              !.step_button = FALSE,
                                              !.fly_blind_search_button = FALSE]
      [] a.status = "Terminated_Waiting" -> Waiting_Base_update_ui(a)
      [] a.status = "Running" ->
            [Running_Base_update_ui(a) EXCEPT !.step_button = TRUE, !.run_pause_button = TRUE]
      [] a.status = "Running_Step" ->
            [Running_Base_update_ui(a) EXCEPT !.run_pause_button = TRUE, !.step_button = FALSE]
      [] a.status = "Running_Paused" ->
            [a EXCEPT !.run_pause_button = TRUE, !.step_button = TRUE]
      [] a.status = "Running_Blind" -> AllButtonsDisabled(Running_Base_update_ui(a))
      [] a.status \in { "Running_Terminating", "Algorithm_Error",
                        "Status_Transition_Error" } -> AllButtonsDisabled(a)
      [] OTHER -> a

\* Search_GUI_Controller.update_status_and_ui; term_seen (history) records
\* that the status became Running_Terminating during the current search
update_status_and_ui(a, newstatus) ==
    IF a.status = newstatus THEN a
    ELSE LET st == IF newstatus = "Algorithm_Error"
                      \/ is_valid_transition_to(a.status, newstatus)
                   THEN newstatus
                   ELSE "Status_Transition_Error"
         IN  update_ui([a EXCEPT !.status = st,
                                 !.term_seen = @ \/ st = "Running_Terminating"])

\* the texts the cutoff spinbox can hold: two of CUTOFF_OPTIONS, 'INF', and
\* what a user can type instead
CutoffTexts == { << "1" >>, << "2", "0" >>, << "I", "N", "F" >>, << "i", "n", "f" >>,
                 << "a" >>, <<>> }

\* float(text) for the texts of the spinbox: 'inf' in any case is INF, a
\* decimal integer is its value, anything else raises ValueError
float(text) ==
    IF [i \in 1..Len(text) |-> upper(text[i])] = << "I", "N", "F" >> THEN Returned(INF)
    ELSE int(text)

\* Search_GUI.get_cutoff
get_cutoff(a) == float(a.cutoff_text)

\* a check of the parameters that accepts every request
VerifyNothing(a, nextstatus) == TRUE

\* Search_GUI_Controller.verify_and_update_parameters
verify_and_update_parameters(a, nextstatus) ==
    IF ~get_cutoff(a).returned THEN FALSE
    ELSE IF nextstatus = "Running_Blind" /\ get_cutoff(a).result[1] = INF THEN FALSE
    ELSE TRUE

\* the `except Exception` of run_search; end_status (history) records the
\* status run_search leaves
SearchRaised(a) ==
    LET left == IF a.status # "Status_Transition_Error"
                THEN update_status_and_ui(a, "Algorithm_Error") ELSE a
    IN  [left EXCEPT !.pc = "idle", !.end_status = left.status]

\* run_search after search() has returned; solution is "goal" for a goal node
\* and "None" for None.  Its closing sleep_update_tk handles clicks as the
\* main loop does
SearchReturned(a, solution) ==
    LET left == IF solution = "goal"
                THEN update_status_and_ui(a, "Finished_Success_Waiting")
                ELSE IF a.status = "Running_Terminating"
                     THEN update_status_and_ui(a, "Terminated_Waiting")
                     ELSE update_status_and_ui(a, "Finished_Failure_Waiting")
    IN  [left EXCEPT !.pc = "idle", !.end_status = left.status]

\* Search_GUI_Controller.run_search(status) up to the first dequeue of the
\* search; requests and last_request (history) record the request
run_search(a, status) ==
    LET asked == [a EXCEPT !.requests = @ + 1, !.last_request = status]
    IN  IF ~verify_and_update_parameters(a, status) THEN asked
        ELSE LET started == update_status_and_ui(
                                [asked EXCEPT !.agents = @ + 1, !.term_seen = FALSE,
                                              !.late_extends = 0, !.end_status = ""],
                                status)
             IN  IF ~get_cutoff(started).returned THEN SearchRaised(started)
                 ELSE [started EXCEPT !.searches = @ + 1, !.pc = "loop",
                                      !.dequeues = 0, !.children = 0]

\* gui.update() is running
HandlesClicks == app.pc \in { "idle", "base_sleep", "step_sleep", "wait_paused" }

GuiFrame == UNCHANGED <<called, nodes, searchVars, gameVars>>

\* the reset button: self.status.handle_reset_button(self)
ClickReset ==
    /\ HandlesClicks
    /\ app.reset_button
    /\ app' = CASE app.status \in WaitingStatuses ->
                      update_status_and_ui(app, "Initial_Waiting")
                [] app.status \in RunningStatuses ->
                      update_status_and_ui(app, "Running_Terminating")
                [] OTHER -> app
    /\ GuiFrame

\* the run/pause button: self.status.handle_run_pause_button(self)
ClickRunPause ==
    /\ HandlesClicks
    /\ app.run_pause_button
    /\ app.status \in WaitingStatuses => app.requests < MaxRequests
    /\ app' = CASE app.status \in WaitingStatuses -> run_search(app, "Running")
                [] app.status = "Running" -> update_status_and_ui(app, "Running_Paused")
                [] app.status \in { "Running_Step", "Running_Paused" } ->
                      update_status_and_ui(app, "Running")
                [] OTHER -> app
    /\ GuiFrame

\* the step button: self.status.handle_step_button(self)
ClickStep ==
    /\ HandlesClicks
    /\ app.step_button
    /\ app.status \in WaitingStatuses => app.requests < MaxRequests
    /\ app' = CASE app.status \in WaitingStatuses -> run_search(app, "Running_Step")
                [] app.status \in { "Running", "Running_Paused" } ->
                      update_status_and_ui(app, "Running_Step")
                [] OTHER -> app
    /\ GuiFrame

\* the fly-blind button: self.status.handle_fly_blind_search_button(self)
ClickFlyBlind ==
    /\ HandlesClicks
    /\ app.fly_blind_search_button
    /\ app.status \in WaitingStatuses => app.requests < MaxRequests
    /\ app' = CASE app.status \in WaitingStatuses -> run_search(app, "Running_Blind")
                [] app.status \in { "Running", "Running_Step", "Running_Paused" } ->
                      update_status_and_ui(app, "Running_Blind")
                [] OTHER -> app
    /\ GuiFrame

\* a click on the canvas that click_canvas_to_action turns into a legal
\* action: self.status.handle_click_canvas(self, event)
ClickCanvas ==
    /\ HandlesClicks
    /\ app.status \in WaitingStatuses
    /\ app' = update_status_and_ui(app, "Interactive_Waiting")
    /\ GuiFrame

\* the user puts another text into the cutoff spinbox
SetCutoff ==
    /\ HandlesClicks
    /\ app.cutoff_spinbox
    /\ \E text \in CutoffTexts :
         /\ text # app.cutoff_text
         /\ app' = [app EXCEPT !.cutoff_text = text]
    /\ GuiFrame

\* one round of `while self.frontier` up to the callback on the dequeued node:
\* the frontier is empty or dequeue() returns None, the node is a goal, or the
\* node goes to gui_callback_fn; the enqueue and dequeue of an agent that
\* leaves them unimplemented raise in the first round
SearchLoop ==
    /\ app.pc = "loop"
    /\ \/ app' = SearchReturned(app, "None")
       \/ /\ app.dequeues = 0
          /\ app' = SearchRaised(app)
       \/ app' = SearchReturned(app, "goal")
       \/ /\ app.dequeues < MaxDequeues
          /\ app' = [app EXCEPT !.dequeues = @ + 1, !.pc = "callback", !.site = "node",
                                !.children = 0, !.late_node = app.term_seen]
    /\ GuiFrame

\* gui_callback_fn has returned to the search: the answer counts for the
\* dequeued node only, a child goes into the frontier whatever it is
CallbackReturns(a, answer) ==
    IF a.site = "node" /\ answer THEN SearchReturned(a, "None")
    ELSE [a EXCEPT !.pc = "extend",
                   !.late_extends = IF a.site = "node" /\ a.late_node THEN @ + 1 ELSE @]

\* Search_GUI_Controller.alg_callback: self.status.alg_callback(self, node) up
\* to its first sleep_update_tk; a status without a callback of its own
\* raises NotImplementedError
AlgCallback ==
    /\ app.pc = "callback"
    /\ app' = CASE app.status = "Running" -> [app EXCEPT !.pc = "base_sleep", !.answer = FALSE]
                [] app.status = "Running_Terminating" ->
                      [app EXCEPT !.pc = "base_sleep", !.answer = TRUE]
                [] app.status = "Running_Step" -> [app EXCEPT !.pc = "step_sleep"]
                [] app.status = "Running_Paused" ->
                      [app EXCEPT !.pc = "wait_paused", !.then = "dispatch"]
                [] app.status = "Running_Blind" -> CallbackReturns(app, FALSE)
                [] OTHER -> SearchRaised(app)
    /\ GuiFrame

\* Running_Base.alg_callback: sleep_update_tk(step_time) is over
BaseSleepOver ==
    /\ app.pc = "base_sleep"
    /\ app' = CallbackReturns(app, app.answer)
    /\ GuiFrame

\* Running_Step.alg_callback: sleep_update_tk(step_time) is over, the status
\* is set to Running_Paused and the wait for another status begins
StepSleepOver ==
    /\ app.pc = "step_sleep"
    /\ LET paused == update_status_and_ui(app, "Running_Paused")
       IN  app' = IF paused.status = "Running_Paused"
                  THEN [paused EXCEPT !.pc = "wait_paused", !.then = "return"]
                  ELSE CallbackReturns(paused, FALSE)
    /\ GuiFrame

\* `while app.status == Running_Paused: sleep_update_tk(.25)` is left:
\* Running_Step.alg_callback returns False, Running_Paused.alg_callback goes
\* on to the callback of the new status
WaitOver ==
    /\ app.pc = "wait_paused"
    /\ app.status # "Running_Paused"
    /\ app' = IF app.then = "return" THEN CallbackReturns(app, FALSE)
              ELSE [app EXCEPT !.pc = "callback"]
    /\ GuiFrame

\* the for-loop over the actions of the dequeued node: one more child is
\* enqueued and shown to gui_callback_fn, or the loop is over
Extend ==
    /\ app.pc = "extend"
    /\ \/ /\ app.children < MaxChildren
          /\ app' = [app EXCEPT !.children = @ + 1, !.pc = "callback", !.site = "child"]
       \/ app' = [app EXCEPT !.pc = "loop"]
    /\ GuiFrame

\* Search_GUI_Controller.__init__: Initiating, then Initial_Waiting; the
\* spinbox shows 'INF'
GuiInit ==
    /\ app = update_status_and_ui(
                 [status |-> "Initiating", reset_button |-> TRUE, run_pause_button |-> TRUE,
                  step_button |-> TRUE, fly_blind_search_button |-> TRUE,
                  cutoff_spinbox |-> TRUE, cutoff_text |-> << "I", "N", "F" >>,
                  agents |-> 0, searches |-> 0, requests |-> 0, last_request |-> "",
                  pc |-> "idle", site |-> "node", answer |-> FALSE, then |-> "return",
                  dequeues |-> 0, children |-> 0, term_seen |-> FALSE,
                  late_node |-> FALSE, late_extends |-> 0, end_status |-> ""],
                 "Initial_Waiting")
    /\ called = NoCall
    /\ nodes = <<>>
    /\ boards = <<>>
    /\ move_limits = NoLimits
    /\ picked = {}
    /\ roots = <<>>
    /\ alg = "tree"
    /\ strat = "bfs"
    /\ cutoff = INF
    /\ pc = "idle"
    /\ frontier = <<>>
    /\ ext_filter = {}
    /\ current_node = 0
    /\ todo = <<>>
    /\ extended = FALSE
    /\ total_extends = 0
    /\ total_enqueues = 0
    /\ result = 0
    /\ cb_stop = FALSE
    /\ admitted = <<>>
    /\ extend_log = <<>>

GuiNext ==
    \/ ClickReset \/ ClickRunPause \/ ClickStep \/ ClickFlyBlind \/ ClickCanvas
    \/ SetCutoff \/ SearchLoop \/ AlgCallback \/ BaseSleepOver \/ StepSleepOver
    \/ WaitOver \/ Extend

GuiSpec == GuiInit /\ [][GuiNext]_vars

(***************************************************************************)
(* lab2/play_game_gui.py: PlayGameGui (PlaySpec).  The controller is one   *)
(* thread.  Every update() of a widget handles the pending events, so a    *)
(* handler runs inside the function that called update(): `stack` holds    *)
(* the frames of continue_game and of the handlers, the last one running.  *)
(* A frame at "pump" is inside update(); `then` is where it goes on.  An   *)
(* exception that leaves a handler is reported by Tk and ends the handler  *)
(* only.  toggle_display_history changes display_state only and is left    *)
(* out, as are the texts of the labels.                                    *)
(***************************************************************************)
\* handler calls dispatched in one behaviour
MaxEvents == 3
\* frames of continue_game and of handlers on the stack
MaxStack == 3

VALID_STATUS_TRANSITIONS(status) ==
    CASE status = "None" -> { "INITIAL_WAITING" }
      [] status = "INITIAL_WAITING" ->
            { "SEARCHING_RUNNING", "INITIAL_WAITING", "FINISHED_COMPLETE",
              "TERMINATING_EARLY", "FINISHED_NO_ACTION" }
      [] status = "SEARCHING_RUNNING" ->
            { "TERMINATING_EARLY", "FINISHED_COMPLETE", "FINISHED_NO_ACTION",
              "SEARCH_ERROR", "INITIAL_WAITING" }
      [] status = "TERMINATING_EARLY" ->
            { "FINISHED_COMPLETE", "FINISHED_NO_ACTION", "SEARCH_ERROR" }
      [] status = "FINISHED_COMPLETE" -> { "INITIAL_WAITING", "SEARCH_ERROR" }
      [] status = "FINISHED_NO_ACTION" -> { "INITIAL_WAITING", "SEARCH_ERROR" }
      [] OTHER -> {}

\* type(self.current_agent) == BASIC_AGENTS['Human']
is_human_turn(a) == a.current_agent = "Human"

\* the buttons as update_status_and_ui leaves them for the new status
PlayButtons(a, newstatus) ==
    CASE newstatus = "INITIAL_WAITING" ->
            [a EXCEPT !.can_start_turn = FALSE, !.restart_button = TRUE,
                      !.undo_move_button = is_human_turn(a),
                      !.start_turn_button = ~is_human_turn(a)]
      [] newstatus = "SEARCHING_RUNNING" ->
            [a EXCEPT !.undo_move_button = FALSE, !.start_turn_button = FALSE]
      [] newstatus = "TERMINATING_EARLY" ->
            [a EXCEPT !.restart_button = FALSE, !.start_turn_button = FALSE]
      [] newstatus \in { "FINISHED_NO_ACTION", "FINISHED_COMPLETE" } ->
            [a EXCEPT !.restart_button = TRUE, !.undo_move_button = FALSE,
                      !.start_turn_button = FALSE]
      [] OTHER ->
            [a EXCEPT !.restart_button = FALSE, !.undo_move_button = FALSE,
                      !.start_turn_button = FALSE]

\* PlayGameGui.update_status_and_ui: the controller afterwards, whether the
\* assert failed, and whether master.update() was reached; assert_failed
\* (history) records a failed assert
play_update_status_and_ui(a, newstatus) ==
    IF newstatus = a.status THEN [app |-> a, raised |-> FALSE, pumped |-> FALSE]
    ELSE IF newstatus \notin VALID_STATUS_TRANSITIONS(a.status)
    THEN [app |-> [a EXCEPT !.assert_failed = TRUE], raised |-> TRUE, pumped |-> FALSE]
    ELSE [app |-> PlayButtons([a EXCEPT !.status = newstatus], newstatus),
          raised |-> FALSE, pumped |-> TRUE]

PlayFrame(fn, at, then, arg) == [fn |-> fn, pc |-> at, then |-> then, arg |-> arg]

Top(a) == a.stack[Len(a.stack)]
Goto(a, at) == [a EXCEPT !.stack[Len(a.stack)].pc = at]
PumpThen(a, at) == [a EXCEPT !.stack[Len(a.stack)].pc = "pump",
                             !.stack[Len(a.stack)].then = at]
Push(a, frame) == [a EXCEPT !.stack = Append(@, frame)]
Pop(a) == [a EXCEPT !.stack = SubSeq(@, 1, Len(@) - 1)]

\* an exception leaves the running frame: it ends a handler (Tk reports it),
\* it passes from a continue_game to the handler that called it, and it
\* ends the program when continue_game was called by __init__
RECURSIVE Unwind(_)
Unwind(a) ==
    IF Top(a).fn # "continue_game" THEN Pop(a)
    ELSE IF Len(a.stack) = 1 THEN [Pop(a) EXCEPT !.mode = "crashed"]
    ELSE Unwind(Pop(a))

\* an exception in continue_game: inside the try it is handled at `except
\* Exception`, elsewhere it leaves the frame
Throw(a, in_try) == IF in_try THEN Goto(a, "except") ELSE Unwind(a)

\* after update_status_and_ui(...) in the running frame
AfterStatus(r, next, in_try) ==
    IF r.raised THEN Throw(r.app, in_try)
    ELSE IF r.pumped THEN PumpThen(r.app, next)
    ELSE Goto(r.app, next)

\* continue_game returns: a handler that called it returns too, and the
\* mainloop starts when __init__ called it
PopReturn(a) ==
    LET left == Pop(a)
    IN  IF left.stack = <<>> THEN [left EXCEPT !.mode = "mainloop"]
        ELSE IF Top(left).pc = "call" THEN Pop(left)
        ELSE left

\* the while-loop before the try can be left
CanStart(a) == a.auto_start_turn_state \/ a.can_start_turn

\* update() is running: in the mainloop, in a frame at "pump", or in the loop
\* that waits for the turn to be started
AtPump ==
    /\ app.mode # "crashed"
    /\ IF app.stack = <<>> THEN app.mode = "mainloop"
       ELSE \/ Top(app).pc = "pump"
            \/ Top(app).pc = "wait" /\ ~is_human_turn(app) /\ ~CanStart(app)
    /\ app.events < MaxEvents

PlayFrameVars == UNCHANGED <<called, searchVars, gameVars>>

Running(fn, at) ==
    /\ app.mode # "crashed"
    /\ app.stack # <<>>
    /\ Top(app).fn = fn
    /\ Top(app).pc = at

\* the agent of the player to move at the state at ref
AgentAt(a, ref) == a.agents[nodes[ref].current_player_index + 1]

\* the "Restart Game" / "Terminate Turn" button: restart_game up to its
\* first update()
PlayRestart ==
    /\ AtPump
    /\ app.restart_button
    /\ LET a == [app EXCEPT !.events = @ + 1]
       IN  IF a.status \in { "INITIAL_WAITING", "FINISHED_COMPLETE", "FINISHED_NO_ACTION" }
           THEN /\ Len(a.stack) + 2 <= MaxStack
                /\ app' = Push([a EXCEPT !.current_state = a.initial_state],
                               PlayFrame("restart_game", "pump", "status", <<>>))
           ELSE IF a.status = "SEARCHING_RUNNING"
           THEN /\ Len(a.stack) + 1 <= MaxStack
                /\ app' = AfterStatus(
                              play_update_status_and_ui(
                                  Push(a, PlayFrame("restart_game", "status", "", <<>>)),
                                  "TERMINATING_EARLY"),
                              "return", FALSE)
           ELSE app' = a
    /\ UNCHANGED nodes
    /\ PlayFrameVars

\* restart_game: update_status_and_ui(INITIAL_WAITING)
RestartStatus ==
    /\ Running("restart_game", "status")
    /\ app' = AfterStatus(play_update_status_and_ui(app, "INITIAL_WAITING"), "callcg", FALSE)
    /\ UNCHANGED nodes
    /\ PlayFrameVars

\* the last statement of restart_game, undo_last_move and
\* click_canvas_attempt_action: self.continue_game(), up to the update() of
\* its first visualize_state
HandlerCall ==
    /\ app.mode # "crashed"
    /\ app.stack # <<>>
    /\ Top(app).fn # "continue_game"
    /\ Top(app).pc = "callcg"
    /\ app' = Push(Goto(app, "call"), PlayFrame("continue_game", "pump", "loop", <<>>))
    /\ UNCHANGED nodes
    /\ PlayFrameVars

\* a handler that does not call continue_game returns
HandlerReturn ==
    /\ app.mode # "crashed"
    /\ app.stack # <<>>
    /\ Top(app).fn # "continue_game"
    /\ Top(app).pc = "return"
    /\ app' = Pop(app)
    /\ UNCHANGED nodes
    /\ PlayFrameVars

\* undo_last_move: back to the last state at which a human moves
RECURSIVE UndoBack(_, _)
UndoBack(a, ref) ==
    IF nodes[ref].parent # 0 /\ AgentAt(a, ref) # "Human"
    THEN UndoBack(a, nodes[ref].parent)
    ELSE ref

\* the "Undo Last Move" button
PlayUndo ==
    /\ AtPump
    /\ app.undo_move_button
    /\ LET a == [app EXCEPT !.events = @ + 1]
       IN  IF a.status = "INITIAL_WAITING" /\ nodes[a.current_state].parent # 0
           THEN /\ Len(a.stack) + 2 <= MaxStack
                /\ LET ref == UndoBack(a, nodes[a.current_state].parent)
                   IN  app' = Push([a EXCEPT !.current_state = ref,
                                             !.current_agent = AgentAt(a, ref)],
                                   PlayFrame("undo_last_move", "callcg", "", <<>>))
           ELSE app' = a
    /\ UNCHANGED nodes
    /\ PlayFrameVars

\* the "Start Move" button: start_turn
PlayStartTurn ==
    /\ AtPump
    /\ app.start_turn_button
    /\ app' = [app EXCEPT !.events = @ + 1, !.can_start_turn = TRUE]
    /\ UNCHANGED nodes
    /\ PlayFrameVars

\* the "Auto-start agent turns" checkbox
PlayToggleAuto ==
    /\ AtPump
    /\ app' = [app EXCEPT !.events = @ + 1, !.auto_start_turn_state = ~@]
    /\ UNCHANGED nodes
    /\ PlayFrameVars

\* what click_canvas_to_action can return: None (<<>>) or an action
ClickActions == { <<>> } \cup { << NimAction(st, p) >> : st \in 1..2, p \in 0..1 }

\* a click on the canvas: click_canvas_attempt_action up to its first update()
PlayClickCanvas ==
    /\ AtPump
    /\ \E action \in ClickActions :
         LET a == [app EXCEPT !.events = @ + 1]
         IN  IF a.status = "INITIAL_WAITING" /\ is_human_turn(a)
             THEN /\ Len(a.stack) + 2 <= MaxStack
                  /\ IF action # <<>>
                        /\ InSeq(action[1], GameAllActions(boards, move_limits,
                                                           nodes[a.current_state]))
                     THEN app' = AfterStatus(
                                     play_update_status_and_ui(
                                         Push(a, PlayFrame("click_canvas_attempt_action",
                                                           "status", "", action)),
                                         "FINISHED_COMPLETE"),
                                     "apply", FALSE)
                     ELSE app' = AfterStatus(
                                     play_update_status_and_ui(
                                         Push(a, PlayFrame("click_canvas_attempt_action",
                                                           "status", "", action)),
                                         "FINISHED_NO_ACTION"),
                                     "callcg", FALSE)
             ELSE app' = a
    /\ UNCHANGED nodes
    /\ PlayFrameVars

\* click_canvas_attempt_action after time.sleep(1): the action of the click
\* is applied to current_state, then visualize_state
ClickApply ==
    /\ Running("click_canvas_attempt_action", "apply")
    /\ LET cur == app.current_state
           next == GameNextState(boards, nodes[cur], cur, Top(app).arg[1]).node
       IN  /\ nodes' = Append(nodes, next)
           /\ app' = PumpThen([app EXCEPT !.current_state = Len(nodes) + 1], "callcg")
    /\ PlayFrameVars

\* update() returns
PumpDone ==
    /\ app.mode # "crashed"
    /\ app.stack # <<>>
    /\ Top(app).pc = "pump"
    /\ app' = Goto(app, Top(app).then)
    /\ UNCHANGED nodes
    /\ PlayFrameVars

\* continue_game: the test of the while-loop, current_agent and
\* update_status_and_ui(INITIAL_WAITING), which is outside the try
CgLoop ==
    /\ Running("continue_game", "loop")
    /\ IF is_endgame_state(boards, move_limits, nodes[app.current_state])
       THEN app' = Goto(app, "end")
       ELSE LET a == [app EXCEPT !.current_agent = AgentAt(app, app.current_state)]
            IN  app' = AfterStatus(play_update_status_and_ui(a, "INITIAL_WAITING"),
                                   "wait", FALSE)
    /\ UNCHANGED nodes
    /\ PlayFrameVars

\* continue_game: the turn starts; search_root_state, and
\* run_agent_choose_action up to choose_action
CgTry ==
    /\ Running("continue_game", "wait")
    /\ is_human_turn(app) \/ CanStart(app)
    /\ LET a == [app EXCEPT !.search_root_state =
                                << GameRootCopy(nodes[app.current_state]) >>]
       IN  IF is_human_turn(a)
           THEN app' = PopReturn([a EXCEPT !.search_result_best_action = <<>>])
           ELSE app' = AfterStatus(play_update_status_and_ui(a, "SEARCHING_RUNNING"),
                                   "choose", TRUE)
    /\ UNCHANGED nodes
    /\ PlayFrameVars

\* self.current_agent.choose_action(self.search_root_state): RandomAgent picks
\* one of get_all_actions() (random.choice raises on an empty list), the
\* search agents and AgentWrapper.choose_action raise NotImplementedError
CgChoose ==
    /\ Running("continue_game", "choose")
    /\ LET actions == GameAllActions(boards, move_limits, app.search_root_state[1])
       IN  IF app.current_agent = "Random" /\ Len(actions) > 0
           THEN \E k \in 1..Len(actions) :
                   app' = Goto([app EXCEPT !.search_result_best_action = << actions[k] >>],
                               "after")
           ELSE app' = Throw(app, TRUE)
    /\ UNCHANGED nodes
    /\ PlayFrameVars

\* continue_game after run_agent_choose_action: the move is shown, or
\* FINISHED_NO_ACTION and break
CgAfter ==
    /\ Running("continue_game", "after")
    /\ IF app.search_result_best_action # <<>> /\ app.status # "TERMINATING_EARLY"
       THEN app' = PumpThen(app, "finish")
       ELSE app' = AfterStatus(play_update_status_and_ui(app, "FINISHED_NO_ACTION"),
                               "end", TRUE)
    /\ UNCHANGED nodes
    /\ PlayFrameVars

\* update_status_and_ui(FINISHED_COMPLETE), then the loop of master.update()
\* and time.sleep(MIN_SLEEP)
CgFinish ==
    /\ Running("continue_game", "finish")
    /\ LET r == play_update_status_and_ui(app, "FINISHED_COMPLETE")
       IN  app' = IF r.raised THEN Throw(r.app, TRUE) ELSE PumpThen(r.app, "apply")
    /\ UNCHANGED nodes
    /\ PlayFrameVars

\* self.current_state = self.current_state.get_next_state(
\* self.search_result_best_action), then visualize_state; None has no
\* attributes (AttributeError); last_applied (history) records the features
\* of the state the action was applied to and of search_root_state
CgApply ==
    /\ Running("continue_game", "apply")
    /\ IF app.search_result_best_action = <<>>
       THEN /\ app' = Throw(app, TRUE)
            /\ UNCHANGED nodes
       ELSE LET cur == app.current_state
                next == GameNextState(boards, nodes[cur], cur,
                                      app.search_result_best_action[1]).node
            IN  /\ nodes' = Append(nodes, next)
                /\ app' = PumpThen(
                              [app EXCEPT !.current_state = Len(nodes) + 1,
                                          !.last_applied =
                                              << GameFeatures(boards, nodes[cur]),
                                                 GameFeatures(boards, app.search_root_state[1]) >>],
                              "loop")
    /\ PlayFrameVars

\* except Exception: update_status_and_ui(SEARCH_ERROR) and break
CgExcept ==
    /\ Running("continue_game", "except")
    /\ app' = AfterStatus(play_update_status_and_ui(app, "SEARCH_ERROR"), "end", FALSE)
    /\ UNCHANGED nodes
    /\ PlayFrameVars

\* continue_game after the while-loop: at an endgame state
\* update_status_and_ui(INITIAL_WAITING), the result and master.update()
CgEnd ==
    /\ Running("continue_game", "end")
    /\ IF is_endgame_state(boards, move_limits, nodes[app.current_state])
       THEN LET r == play_update_status_and_ui(app, "INITIAL_WAITING")
            IN  app' = IF r.raised THEN Throw(r.app, FALSE) ELSE PumpThen(r.app, "return")
       ELSE app' = PopReturn(app)
    /\ UNCHANGED nodes
    /\ PlayFrameVars

\* continue_game returns after the last master.update()
CgReturn ==
    /\ Running("continue_game", "return")
    /\ app' = PopReturn(app)
    /\ UNCHANGED nodes
    /\ PlayFrameVars

\* the initial states of the games played: Nim with the piles (1, 1) or (2)
PlayRoots ==
    { NimGameState(<<1, 1>>, 0, <<>>, 0, 0), NimGameState(<<2>>, 0, <<>>, 0, 0) }

\* PlayGameGui.__init__ up to the update() of the first visualize_state of
\* continue_game; the buttons are created NORMAL
PlayInit ==
    /\ \E s \in PlayRoots : nodes = << s >>
    /\ \E agents \in [1..2 -> { "Human", "Random", "Search" }] :
          app = [mode |-> "init", status |-> "None", agents |-> agents,
                 current_agent |-> agents[1], initial_state |-> 1, current_state |-> 1,
                 search_root_state |-> << nodes[1] >>,
                 search_result_best_action |-> <<>>,
                 can_start_turn |-> FALSE, auto_start_turn_state |-> FALSE,
                 restart_button |-> TRUE, undo_move_button |-> TRUE,
                 start_turn_button |-> TRUE,
                 stack |-> << PlayFrame("continue_game", "pump", "loop", <<>>) >>,
                 events |-> 0, assert_failed |-> FALSE, last_applied |-> <<>>]
    /\ called = NoCall
    /\ boards = <<>>
    /\ move_limits = NoLimits
    /\ picked = {}
    /\ roots = <<>>
    /\ alg = "tree"
    /\ strat = "bfs"
    /\ cutoff = INF
    /\ pc = "idle"
    /\ frontier = <<>>
    /\ ext_filter = {}
    /\ current_node = 0
    /\ todo = <<>>
    /\ extended = FALSE
    /\ total_extends = 0
    /\ total_enqueues = 0
    /\ result = 0
    /\ cb_stop = FALSE
    /\ admitted = <<>>
    /\ extend_log = <<>>

PlayNext ==
    \/ PlayRestart \/ RestartStatus \/ HandlerCall \/ HandlerReturn \/ PlayUndo
    \/ PlayStartTurn \/ PlayToggleAuto \/ PlayClickCanvas \/ ClickApply \/ PumpDone
    \/ CgLoop \/ CgTry \/ CgChoose \/ CgAfter \/ CgFinish \/ CgApply \/ CgExcept
    \/ CgEnd \/ CgReturn

PlaySpec == PlayInit /\ [][PlayNext]_vars

(***************************************************************************)
(* Positions reached by legal moves from one initial state                 *)
(***************************************************************************)
\* the nodes made from one initial state: of TicTacToe, of a slide puzzle
MaxBoardNodes == 7
MaxSlideNodes == 5

\* TicTacToeGameState.readFromFile on files with three empty cells, either
\* player moving first
BoardRoots ==
    { [node |-> TicTacToeGameState(1, 0, <<>>, 0, p), boards |-> << b >>,
       limits |-> NoLimits] :
        p \in 0..1,
        b \in { << <<EMPTY, 1, 0>>, <<0, EMPTY, 1>>, <<1, 0, EMPTY>> >>,
                << <<0, 1, 0>>, <<1, 1, 0>>, <<EMPTY, EMPTY, EMPTY>> >> } }

\* SlidePuzzleState.readFromFile on puzzles of size 3 (the empty spot in a
\* corner, on an edge, in the centre) and of size 2
SlideRoots ==
    { [node |-> SlideFromFile(t), boards |-> <<>>, limits |-> NoLimits] :
        t \in { << <<0, 1, 2>>, <<3, 4, 5>>, <<6, 7, 8>> >>,
                << <<1, 0, 2>>, <<3, 4, 5>>, <<6, 7, 8>> >>,
                << <<8, 7, 6>>, <<5, 0, 4>>, <<3, 2, 1>> >>,
                << <<3, 2>>, <<1, 0>> >> } }

BoardInit ==
    /\ \E r \in BoardRoots \cup SlideRoots :
         /\ nodes = << r.node >>
         /\ boards = r.boards
         /\ move_limits = r.limits
    /\ picked = {}
    /\ roots = <<>>
    /\ alg = "tree"
    /\ strat = "bfs"
    /\ cutoff = INF
    /\ pc = "idle"
    /\ frontier = <<>>
    /\ ext_filter = {}
    /\ current_node = 0
    /\ todo = <<>>
    /\ extended = FALSE
    /\ total_extends = 0
    /\ total_enqueues = 0
    /\ result = 0
    /\ cb_stop = FALSE
    /\ admitted = <<>>
    /\ extend_log = <<>>
    /\ called = NoCall
    /\ app = NoController

\* n.get_next_state(a) for a TicTacToe node n and an action a of
\* n.get_all_actions(), each move of each node made once
TicTacToeMove ==
    /\ Len(nodes) < MaxBoardNodes
    /\ \E ref \in 1..Len(nodes) :
         /\ nodes[ref].kind = "TicTacToe"
         /\ \E k \in 1..Len(TicTacToeAllActions(boards[nodes[ref].board])) :
            LET action == TicTacToeAllActions(boards[nodes[ref].board])[k]
                r == TicTacToeNextState(boards, nodes[ref], ref, action)
            IN  /\ \A j \in 1..Len(nodes) :
                      ~(nodes[j].parent = ref /\ nodes[j].last_action = <<action>>)
                /\ nodes' = Append(nodes, r.node)
                /\ boards' = r.boards
    /\ UNCHANGED <<callVars, searchVars, picked, roots, move_limits>>

\* n.get_next_state(a) for a slide puzzle node n and an action a of
\* n.get_all_actions(), each move of each node made once
SlideMove ==
    /\ Len(nodes) < MaxSlideNodes
    /\ \E ref \in 1..Len(nodes) :
         /\ nodes[ref].kind = "SlidePuzzle"
         /\ \E k \in 1..Len(SlideAllActions(nodes[ref])) :
              LET action == SlideAllActions(nodes[ref])[k]
              IN  /\ \A j \in 1..Len(nodes) :
                        ~(nodes[j].parent = ref /\ nodes[j].last_action = <<action>>)
                  /\ nodes' = Append(nodes, SlideNextState(nodes[ref], ref, action))
    /\ UNCHANGED <<callVars, searchVars, gameVars>>

BoardNext == TicTacToeMove \/ SlideMove

BoardSpec == BoardInit /\ [][BoardNext]_vars

(***************************************************************************)
(* Properties of the searches (checked under Spec)                         *)
(***************************************************************************)
\* the actions of a node as a set of positions in get_all_actions()
ActionIndexes(s) == 1..Len(get_all_actions(s))

\* the states reachable from the states of S, as roots
RECURSIVE Closure(_)
Closure(S) ==
    LET T == S \cup UNION { { RootCopy(get_next_state(s, 0, get_all_actions(s)[k])) :
                                k \in ActionIndexes(s) } : s \in S }
    IN  IF T = S THEN S ELSE Closure(T)

\* a goal state can be reached from s
GoalReachable(s) == \E t \in Closure({RootCopy(s)}) : is_goal_state(t)

\* the path of the node at ref starts at the root of the search and every
\* step of it is p.get_next_state(a) for an a of p.get_all_actions()
PathLegal(store, ref) ==
    LET path == get_path(store, ref)
    IN  /\ path[1] = 1
        /\ store[1].parent = 0
        /\ \A i \in 1..(Len(path) - 1) :
             \E k \in ActionIndexes(store[path[i]]) :
                store[path[i + 1]] =
                    get_next_state(store[path[i]], path[i], get_all_actions(store[path[i]])[k])

\* a finished graph search on a solvable instance, no cutoff, no stop requested
SolvableGraphRun ==
    /\ pc = "done"
    /\ alg = "graph"
    /\ cutoff = INF
    /\ ~cb_stop
    /\ GoalReachable(nodes[1])

\* C1: a graph search on a solvable instance, with no cutoff and a callback that
\* never asks to stop, returns a goal node whose path starts at the root and
\* takes only legal transitions, with every frontier strategy.
C1_GraphSearchFindsGoal ==
    SolvableGraphRun =>
        /\ result # 0
        /\ is_goal_state(nodes[result])
        /\ PathLegal(nodes, result)

\* a solvable graph search that returned a goal two or more moves from the root
C1_Witness ==
    /\ SolvableGraphRun
    /\ result # 0
    /\ nodes[result].depth >= 2
    /\ strat = "random"

\* the search returned None or a node that is a goal
ReturnsNoneOrGoal == pc = "done" => (result = 0 \/ is_goal_state(nodes[result]))

\* C2: tree and graph search never raise and return None or a goal node; a
\* pass of the loop that finds the frontier empty returns None, with every
\* frontier strategy.
C2_NoneOrGoalNoRaise ==
    /\ [](pc # "raised" /\ ReturnsNoneOrGoal)
    /\ [][(pc = "loop" /\ Len(frontier) = 0) => (pc' = "done" /\ result' = 0)]_vars

\* a search that extended nodes, ran out of frontier and returned None
C2_Witness ==
    /\ pc = "done"
    /\ result = 0
    /\ ~cb_stop
    /\ Len(frontier) = 0
    /\ total_extends > 0
    /\ cutoff = INF

\* C3 (as the specification states it): once a callback invocation has
\* returned true, nothing more is dequeued, enqueued or extended and the search
\* returns None.
C3_StopHonoured ==
    [][cb_stop => /\ frontier' = frontier
                  /\ nodes' = nodes
                  /\ total_enqueues' = total_enqueues
                  /\ extend_log' = extend_log
                  /\ pc' = "done"
                  /\ result' = 0]_vars

\* two entries of a list of addresses never hold equal state features
DistinctFeatures(store, refs) ==
    \A i, j \in 1..Len(refs) :
        get_state_features(store[refs[i]]) = get_state_features(store[refs[j]]) => i = j

\* C4: in a graph search no two nodes admitted to the frontier, the root
\* included, have equal state features, and no state is extended twice.
C4_NoDuplicateAdmission ==
    alg = "graph" => (DistinctFeatures(nodes, admitted) /\ DistinctFeatures(nodes, extend_log))

\* a finished graph search in which an extended node had a legal action, not
\* back to its parent, to a state already marked: no child of it was enqueued
C4_Witness ==
    /\ alg = "graph"
    /\ pc = "done"
    /\ Len(admitted) >= 4
    /\ \E i \in 1..Len(extend_log) :
         \E k \in ActionIndexes(nodes[extend_log[i]]) :
            LET n == nodes[extend_log[i]]
                child == get_next_state(n, extend_log[i], get_all_actions(n)[k])
            IN  /\ NotParent(nodes, child, n.parent)
                /\ get_state_features(child) \in ext_filter
                /\ \A r \in 1..Len(nodes) :
                     ~(/\ nodes[r].parent = extend_log[i]
                       /\ get_state_features(nodes[r]) = get_state_features(child))

RECURSIVE SumSeq(_)
SumSeq(seq) == IF seq = <<>> THEN 0 ELSE Head(seq) + SumSeq(Tail(seq))

\* the legal actions of the nodes extended so far
LegalActionsExplored ==
    SumSeq([i \in 1..Len(extend_log) |-> Len(get_all_actions(nodes[extend_log[i]]))])

\* those of them that do not lead back to the state of the extended node's parent
ForwardActionsExplored ==
    SumSeq([i \in 1..Len(extend_log) |->
        LET n == nodes[extend_log[i]]
        IN  Cardinality({ k \in ActionIndexes(n) :
                n.parent = 0 \/
                get_state_features(get_next_state(n, extend_log[i], get_all_actions(n)[k]))
                    # get_state_features(nodes[n.parent]) })])

\* the scenario: a finished breadth-first tree search, no cutoff, no stop
\* requested, on a 2-by-2 roomba grid without walls whose one dirty cell is the
\* corner opposite to the start
TwoMoveScenario ==
    /\ pc = "done"
    /\ alg = "tree"
    /\ strat = "bfs"
    /\ cutoff = INF
    /\ ~cb_stop
    /\ nodes[1].kind = "Roomba"
    /\ LET root == nodes[1]
           far == Coordinate(1 - root.position.row, 1 - root.position.col)
       IN  \A r \in 0..1, c \in 0..1 :
              IF Coordinate(r, c) = far
              THEN get_terrain(root, Coordinate(r, c)) = DIRTY_FLOOR
              ELSE get_terrain(root, Coordinate(r, c)) \in {FLOOR, CARPET}

\* the search extended the start node, then its two neighbours, and returned a
\* goal node at depth 2
ExpandsStartThenNeighbours ==
    /\ Len(extend_log) = 3
    /\ extend_log[1] = 1
    /\ nodes[extend_log[2]].parent = 1
    /\ nodes[extend_log[3]].parent = 1
    /\ nodes[extend_log[2]].position # nodes[extend_log[3]].position
    /\ result # 0
    /\ is_goal_state(nodes[result])
    /\ nodes[result].depth = 2

\* C7 (as the specification states it): in the scenario total_enqueues is the
\* number of legal actions of the nodes extended at depth 0 and depth 1.
C7_EnqueuesAreLegalActions ==
    TwoMoveScenario => (ExpandsStartThenNeighbours /\ total_enqueues = LegalActionsExplored)

\* C7 (amended): in the scenario the search extends the start node, then both
\* neighbours, returns a goal node at depth 2, and total_enqueues is the number
\* of legal actions at depth 0 and depth 1 that do not lead back to the parent
\* of the extended node.
C7_EnqueuesAreForwardActions ==
    TwoMoveScenario => (ExpandsStartThenNeighbours /\ total_enqueues = ForwardActionsExplored)

\* the scenario has run: four enqueues for six legal actions
C7_Witness ==
    /\ TwoMoveScenario
    /\ total_enqueues = 4
    /\ LegalActionsExplored = 6

(***************************************************************************)
(* Properties of the nodes and of the game agents (checked under NodeSpec) *)
(***************************************************************************)
\* a == b and hash(a), for two nodes of the lab of the node a
EqAt(bstore, a, b) == IF IsGame(a) THEN GameNodeEq(bstore, a, b) ELSE NodeEq(a, b)
HashAt(bstore, a) == IF IsGame(a) THEN GameNodeHash(bstore, a) ELSE NodeHash(a)

\* the node a at another place of a search tree: another parent, depth,
\* last action and (goal search) path cost
Elsewhere(a, parent, depth) ==
    IF IsGame(a)
    THEN [a EXCEPT !.parent = parent, !.depth = depth, !.last_action = <<>>]
    ELSE [a EXCEPT !.parent = parent, !.depth = depth, !.last_action = <<>>,
                   !.path_cost = 3 * depth]

\* C5: for nodes a, b of one concrete type, a == b iff their state features
\* are equal; == is reflexive and symmetric; a == b implies hash(a) == hash(b);
\* and neither == nor hash changes with parent, depth, last_action, path_cost.
C5_EqualityByFeatures ==
    \A i, j \in 1..Len(nodes) :
        LET a == nodes[i]
            b == nodes[j]
            eq == EqAt(boards, a, b)
        IN  a.kind = b.kind =>
              /\ eq <=> (FeaturesAt(nodes, boards, i) = FeaturesAt(nodes, boards, j))
              /\ i = j => eq
              /\ eq <=> EqAt(boards, b, a)
              /\ eq => (HashAt(boards, a) = HashAt(boards, b))
              /\ \A ctx \in { <<0, 0>>, <<Len(nodes), MaxOps>> } :
                    /\ EqAt(boards, Elsewhere(a, ctx[1], ctx[2]), b) <=> eq
                    /\ HashAt(boards, Elsewhere(a, ctx[1], ctx[2])) = HashAt(boards, a)

\* two nodes that are equal although their parents and depths differ
C5_Witness ==
    \E i, j \in 1..Len(nodes) :
        /\ i # j
        /\ nodes[i].depth # nodes[j].depth
        /\ nodes[i].parent # nodes[j].parent
        /\ EqAt(boards, nodes[i], nodes[j])
        /\ nodes[i].kind = "Spotless"

\* C6 (as the specification states it): on every state both agents return, the
\* alpha-beta agent returns the (action, value) pair the minimax agent returns,
\* and its node counter is not above the minimax agent's.
C6_AlphaBetaEqualsMinimax ==
    \A p, q \in picked :
        (p.agent = "Minimax" /\ q.agent = "AlphaBeta" /\ p.node = q.node) =>
            /\ p.outcome.returned
            /\ q.outcome.returned
            /\ q.outcome.result = p.outcome.result
            /\ q.outcome.total_nodes <= p.outcome.total_nodes

\* C8: r = n.get_as_root_node() has no parent, depth 0, no last action, the
\* path cost 0 (goal search) and the state features of n.
C8_RootNodeReset ==
    \A k \in 1..Len(roots) :
        LET n == roots[k][1]
            r == nodes[roots[k][2]]
        IN  /\ r.parent = 0
            /\ r.depth = 0
            /\ r.last_action = <<>>
            /\ ~IsGame(r) => r.path_cost = 0
            /\ FeaturesAt(nodes, boards, roots[k][2]) = FeaturesAt(nodes, boards, n)

\* a root made of a goal-search node that had a parent and a path cost
C8_Witness ==
    \E k \in 1..Len(roots) :
        /\ ~IsGame(nodes[roots[k][1]])
        /\ nodes[roots[k][1]].depth >= 1
        /\ nodes[roots[k][1]].path_cost >= 2
        /\ roots[k][2] # roots[k][1]

\* C9: no step (get_as_root_node, or a move from any node, the returned root
\* included) changes a field or the state features of a node that exists.
C9_NodesNeverMutated ==
    [][\A i \in 1..Len(nodes) :
          /\ i <= Len(nodes')
          /\ nodes'[i] = nodes[i]
          /\ FeaturesAt(nodes', boards', i) = FeaturesAt(nodes, boards, i)]_vars

\* a move was made from the root returned for a node n that has a parent; the
\* root shares n's board object (TicTacToe)
C9_Witness ==
    \E k \in 1..Len(roots), c \in 1..Len(nodes) :
        /\ nodes[roots[k][1]].kind = "TicTacToe"
        /\ nodes[roots[k][1]].depth >= 1
        /\ nodes[roots[k][2]].board = nodes[roots[k][1]].board
        /\ nodes[c].parent = roots[k][2]
        /\ nodes[c].board # nodes[roots[k][2]].board

\* C10: a node made by get_next_state is one deeper than its parent, and
\* every node without a parent has depth 0.
C10_DepthIsParentDepthPlusOne ==
    \A i \in 1..Len(nodes) :
        IF nodes[i].parent = 0
        THEN nodes[i].depth = 0
        ELSE nodes[i].depth = nodes[nodes[i].parent].depth + 1

\* a Nim node two moves below a root, and a child of a root made by
\* get_as_root_node
C10_Witness ==
    /\ nodes[1].kind = "Nim"
    /\ \E i \in 1..Len(nodes) : nodes[i].depth = 2
    /\ \E k \in 1..Len(roots), c \in 1..Len(nodes) : nodes[c].parent = roots[k][2]

\* the while-loop of get_path() started at a node ends: following .parent from
\* the node reaches None within as many steps as there are node objects (a
\* chain that is longer visits an object twice and never ends)
RECURSIVE ParentChainEnds(_, _, _)
ParentChainEnds(store, ref, fuel) ==
    IF ref = 0 THEN TRUE
    ELSE IF fuel = 0 THEN FALSE
    ELSE ParentChainEnds(store, store[ref].parent, fuel - 1)

\* C11: for every node made by get_next_state and get_as_root_node,
\* get_path() terminates and returns the path from the root to the node: the
\* first element has no parent, each later element's parent is the element
\* before it, the last element is the node, and the length is depth + 1.
C11_PathRootToNode ==
    \A i \in 1..Len(nodes) :
        /\ ParentChainEnds(nodes, i, Len(nodes))
        /\ LET path == get_path(nodes, i)
           IN  /\ nodes[path[1]].parent = 0
               /\ \A k \in 2..Len(path) : nodes[path[k]].parent = path[k - 1]
               /\ path[Len(path)] = i
               /\ Len(path) = nodes[i].depth + 1

\* a node n with the path <<root, n>>, and a move made from the root that
\* get_as_root_node returned for n: its path starts at that root
C11_Witness ==
    \E k \in 1..Len(roots), c \in 1..Len(nodes) :
        /\ get_path(nodes, roots[k][1]) = << 1, roots[k][1] >>
        /\ get_path(nodes, c) = << roots[k][2], c >>

\* the cost of the move that led from the node parent to the node child: 1
\* for a slide of a tile, and for a roomba the cost of the cell moved onto,
\* 2 for a carpet (dirty or not) and 1 for a floor
MoveCost(parent, child) ==
    IF child.kind = "SlidePuzzle" THEN 1
    ELSE IF get_terrain(parent, child.position) \in {CARPET, DIRTY_CARPET} THEN 2
    ELSE 1

\* C12: in the goal-search problems path_cost is never negative, a child's
\* path_cost is its parent's plus the cost of the action taken, which is not
\* negative, and so path_cost never decreases along a path from the root.
C12_PathCostAdditive ==
    \A i \in 1..Len(nodes) :
        ~IsGame(nodes[i]) =>
            /\ nodes[i].path_cost >= 0
            /\ nodes[i].parent # 0 =>
                  /\ MoveCost(nodes[nodes[i].parent], nodes[i]) >= 0
                  /\ nodes[i].path_cost = nodes[nodes[i].parent].path_cost
                                          + MoveCost(nodes[nodes[i].parent], nodes[i])
            /\ LET path == get_path(nodes, i)
               IN  \A k \in 2..Len(path) :
                      nodes[path[k - 1]].path_cost <= nodes[path[k]].path_cost

\* a roomba two moves from the root, one of them onto a carpet
C12_Witness ==
    \E i \in 1..Len(nodes) :
        /\ nodes[i].kind = "Roomba"
        /\ nodes[i].depth = 2
        /\ nodes[i].path_cost = 3

(***************************************************************************)
(* Properties of the frontier strategies (checked under Spec)              *)
(***************************************************************************)
\* the addresses of the nodes held in the frontier
FrontierNodes ==
    IF strat = "ucs" THEN { frontier[k][2] : k \in 1..Len(frontier) }
    ELSE { frontier[k] : k \in 1..Len(frontier) }

ItemCount(fr, x) == Cardinality({ k \in 1..Len(fr) : fr[k] = x })

\* C14: UniformCostSearch.dequeue removes and returns a frontier node whose
\* path_cost is minimal among the nodes in the frontier, the other items
\* stay, and neither enqueue nor dequeue fails when several frontier nodes
\* have the same path_cost.
C14_UcsDequeuesMinimum ==
    [][(strat = "ucs" /\ pc = "loop" /\ Len(frontier) > 0) =>
          /\ pc' # "raised"
          /\ current_node' \in FrontierNodes
          /\ \A n \in FrontierNodes :
                nodes[current_node'].path_cost <= nodes[n].path_cost
          /\ Len(frontier') = Len(frontier) - 1
          /\ \A k \in 1..Len(frontier) :
                ItemCount(frontier', frontier[k]) =
                    IF frontier[k][2] = current_node'
                    THEN ItemCount(frontier, frontier[k]) - 1
                    ELSE ItemCount(frontier, frontier[k])]_vars

\* a dequeue has left a frontier in which three nodes have the same path_cost,
\* the least of the frontier, and two of them the same state
C14_Witness ==
    /\ strat = "ucs"
    /\ pc = "loop"
    /\ Len(extend_log) >= 2
    /\ \E i, j, k \in 1..Len(frontier) :
          /\ i < j /\ j < k
          /\ frontier[i][1] = frontier[j][1]
          /\ frontier[j][1] = frontier[k][1]
          /\ NodeEq(nodes[frontier[i][2]], nodes[frontier[j][2]])
          /\ \A m \in 1..Len(frontier) : frontier[i][1] <= frontier[m][1]

\* C15 (as the specification states it): RandomSearch.dequeue removes from
\* the frontier exactly the element it returns: afterwards the returned node
\* object is not in the frontier and every other node object still is.
C15_RandomRemovesReturned ==
    [][(strat = "random" /\ pc = "loop" /\ Len(frontier) > 0 /\ pc' # "raised") =>
          /\ \A k \in 1..Len(frontier') : frontier'[k] # current_node'
          /\ \A k \in 1..Len(frontier) :
                frontier[k] # current_node' =>
                    \E m \in 1..Len(frontier') : frontier'[m] = frontier[k]]_vars

\* C16 (as the specification states it): after a tree or graph search has
\* returned, total_extends is the number of expansions performed, i.e. of
\* dequeued nodes that were not goals and on which the callback did not ask
\* to stop, the ones that produced no child to enqueue included.
C16_ExtendsCountExpansions ==
    pc = "done" => total_extends = Len(extend_log)

(***************************************************************************)
(* Properties of an agent that searches repeatedly (checked under          *)
(* AgentSpec)                                                              *)
(***************************************************************************)
\* C17 (as the specification states it): every call of search() on an agent
\* object starts from a frontier that contains only that call's root, also
\* when an earlier call on the agent returned early.
C17_FrontierScopedToCall ==
    (pc = "loop" /\ current_node = 0) =>
        /\ Len(frontier) = 1
        /\ FrontierNodes = { admitted[1] }

(***************************************************************************)
(* Properties of the informed agents and of iterative deepening (checked   *)
(* under NodeSpec)                                                         *)
(***************************************************************************)
\* C18 (as the specification states it): an anytime search that ends without
\* a goal, the frontier empty or the callback asking to stop, returns the
\* node of lowest heuristic estimate seen so far (at least the initial state
\* has been seen) instead of no result.
C18_AnytimeReturnsBestSoFar ==
    \A p \in picked :
        (p.agent = "Anytime" /\ ~is_goal_state(nodes[p.node])) =>
            /\ p.outcome.returned
            /\ p.outcome.result # <<>>

\* C19 (as the specification states it): with the A* strategy enqueue admits
\* a node iff path_cost < cutoff and dequeue removes and returns a frontier
\* node of minimal path_cost + heuristic; both calls return.
C19_AStarEnqueuesAndDequeues ==
    \A p \in picked :
        p.agent \in {"AStar.enqueue", "AStar.dequeue"} => p.outcome.returned

\* C20 (as the specification states it): iterative_pick_action returns a
\* history with one entry for each completed pass, the entry at index i the
\* result of the search with the depth limit i + 1.
C20_HistoryOfCompletedPasses ==
    \A p \in picked :
        p.agent = "IterativeDeepening" =>
            /\ p.outcome.returned
            /\ \A i \in 1..Len(p.outcome.result) : p.outcome.result[i].depth_limit = i

\* C21 (as the specification states it): a pick_action call of an adversarial
\* search agent whose callback signals early termination returns, with the
\* best (action, value) found so far: it raises nothing and its result is
\* defined.
C21_StoppedPickReturnsBestSoFar ==
    \A p \in picked :
        (p.agent \in {"Minimax", "AlphaBeta"} /\ p.stop) =>
            /\ p.outcome.raised = ""
            /\ p.outcome.returned
            /\ p.outcome.result # <<>>

(***************************************************************************)
(* Properties of the games' evaluation and action methods (checked under   *)
(* MethodSpec)                                                             *)
(***************************************************************************)
\* the node the last call was made on, and whether it is a terminal state
CalledNode == nodes[called.node]
CalledEvalAtTerminal ==
    /\ called.op = "endgame_score_heur_zero_eval_fn"
    /\ is_endgame_state(boards, move_limits, CalledNode)

\* C23 (as the specification states it): at every terminal state of a game,
\* a root (parent None) included, endgame_utility(p) returns a value of
\* {-1, 0, +1} and raises nothing.
C23_UtilityDefinedAtTerminal ==
    CalledEvalAtTerminal =>
        /\ called.outcome.returned
        /\ called.outcome.result[1] \in {-1, 0, 1}

\* the player who made the move into a node: the one who is not to move there
LastMover(n) == 1 - n.current_player_index

\* C24: at a terminal Nim state reached by a legal move, endgame_utility(p) is
\* -1 when p took the last stone and +1 for the other player.
C24_NimMisereUtility ==
    (CalledEvalAtTerminal /\ CalledNode.kind = "Nim" /\ CalledNode.parent # 0) =>
        called.outcome =
            Returned(IF called.arg[1] = LastMover(CalledNode) THEN -1 ELSE 1)

C24_Witness ==
    /\ CalledEvalAtTerminal
    /\ CalledNode.kind = "Nim"
    /\ CalledNode.parent # 0
    /\ CalledNode.last_action = << NimAction(1, 1) >>
    /\ called.arg = << LastMover(CalledNode) >>
    /\ called.outcome = Returned(-1)

C26_StrToActionInvertsActionToStr ==
    called.op = "str_to_action" =>
        /\ called.outcome.returned
        /\ PyEq(called.outcome.result[1], ActionObject(CalledNode.kind, called.arg[1]))
        /\ InputAccepted(CalledNode.kind, action_to_str(CalledNode.kind, called.arg[1]),
                         AllActionsAt(called.node))

\* C27: an action of the problem's action type is one of get_all_actions()
\* exactly when is_legal_action holds of it.
C27_AllActionsAreTheLegalActions ==
    called.op = "is_legal_action" =>
        (called.outcome.result[1] <=> InSeq(called.arg[1], AllActionsAt(called.node)))

C27_Witness ==
    /\ called.op = "is_legal_action"
    /\ CalledNode.kind = "Nim"
    /\ CalledNode.parent # 0
    /\ ~move_limits.is_none
    /\ called.arg = << NimAction(2, 1) >>
    /\ CalledNode.board[2] = 2
    /\ called.outcome = Returned(FALSE)

(***************************************************************************)
(* Optimality of the uniform cost graph search (checked under Spec)        *)
(***************************************************************************)
\* the least path cost of a goal node that get_next_state reaches from the
\* node s in at most `fuel` steps, INF when there is none
RECURSIVE MinGoalCost(_, _)
MinGoalCost(s, fuel) ==
    IF is_goal_state(s) THEN s.path_cost
    ELSE IF fuel = 0 THEN INF
    ELSE LET below == { MinGoalCost(get_next_state(s, 0, get_all_actions(s)[k]), fuel - 1) :
                          k \in ActionIndexes(s) }
         IN  IF below = {} THEN INF
             ELSE CHOOSE m \in below : \A x \in below : m <= x

\* a uniform cost graph search without a cutoff, never stopped by the
\* callback, has returned a goal node
GraphUcsReturnedGoal ==
    /\ pc = "done"
    /\ alg = "graph"
    /\ strat = "ucs"
    /\ cutoff = INF
    /\ ~cb_stop
    /\ result > 0
    /\ is_goal_state(nodes[result])

\* C30: when the uniform cost graph search returns a goal node, no goal state
\* is reached from the root by a path of smaller cost.  Every action costs at
\* least 1, so a cheaper path has fewer steps than the cost returned.
C30_GraphUcsReturnsCheapestGoal ==
    GraphUcsReturnedGoal =>
        MinGoalCost(RootCopy(nodes[1]), nodes[result].path_cost)
            >= nodes[result].path_cost

C30_Witness ==
    /\ GraphUcsReturnedGoal
    /\ \E n \in 1..Len(nodes) :
          /\ n # result
          /\ is_goal_state(nodes[n])
          /\ nodes[n].path_cost > nodes[result].path_cost

(***************************************************************************)
(* Properties of the goal-search controller (checked under GuiSpec)        *)
(***************************************************************************)
\* a run request (start, step or fly blind) is being made
RunRequested == app'.requests = app.requests + 1

\* the request for the status st is misconfigured: the cutoff is not a valid
\* number, or a blind run is asked for without a limit
Misconfigured(text, st) ==
    \/ ~float(text).returned
    \/ st = "Running_Blind" /\ float(text) = Returned(INF)

\* C22: a misconfigured run request is rejected before the search starts: no
\* agent is created, search() is not invoked and the status stays as it is.
C22_MisconfiguredRunRejected ==
    [][(RunRequested /\ Misconfigured(app.cutoff_text, app'.last_request)) =>
          /\ app'.agents = app.agents
          /\ app'.searches = app.searches
          /\ app'.status = app.status
          /\ app'.pc = app.pc]_vars

C22_Witness ==
    /\ app.requests = 2
    /\ app.last_request = "Running_Blind"
    /\ app.cutoff_text = << "I", "N", "F" >>
    /\ app.searches = 1
    /\ app.agents = 1
    /\ app.status = "Terminated_Waiting"

\* C28 (as the specification states it): whatever the user clicks while a
\* search runs or rests, the controller never enters Status_Transition_Error.
C28_NoStatusTransitionError == app.status # "Status_Transition_Error"

\* C29 (as the specification states it): once the status has become
\* Running_Terminating, no node dequeued afterwards is extended, and the
\* search ends in Terminated_Waiting, Finished_Success_Waiting or
\* Finished_Failure_Waiting.
C29_TerminatingEndsTheSearch ==
    app.term_seen =>
        /\ app.late_extends = 0
        /\ app.end_status \in { "", "Terminated_Waiting", "Finished_Success_Waiting",
                                "Finished_Failure_Waiting" }

(***************************************************************************)
(* Optimality of the uniform cost tree search (checked under Spec)         *)
(***************************************************************************)
\* a uniform cost tree search without a cutoff, never stopped by the
\* callback, has returned a goal node
TreeUcsReturnedGoal ==
    /\ pc = "done"
    /\ alg = "tree"
    /\ strat = "ucs"
    /\ cutoff = INF
    /\ ~cb_stop
    /\ result > 0
    /\ is_goal_state(nodes[result])

\* C31: when the uniform cost tree search (no cutoff, callback never
\* stopping) returns a goal node, no goal state is reached from the root by
\* a path of strictly smaller total cost than the returned node's path_cost.
C31_TreeUcsReturnsCheapestGoal ==
    TreeUcsReturnedGoal =>
        MinGoalCost(RootCopy(nodes[1]), nodes[result].path_cost)
            >= nodes[result].path_cost

\* the tree search returned a goal while a costlier goal node had been
\* generated as well
C31_Witness ==
    /\ TreeUcsReturnedGoal
    /\ \E n \in 1..Len(nodes) :
          /\ n # result
          /\ is_goal_state(nodes[n])
          /\ nodes[n].path_cost > nodes[result].path_cost

(***************************************************************************)
(* Termination of the searches (checked under FairSpec)                    *)
(***************************************************************************)
\* a tree search with the Random, DFS or BFS strategy and a finite cutoff
FiniteCutoffTreeSearch ==
    /\ alg = "tree"
    /\ strat \in {"random", "dfs", "bfs"}
    /\ cutoff # INF

\* C32: tree search with the Random, DFS or BFS strategy and a finite depth
\* cutoff always returns, also when the state graph has cycles and no goal
\* exists.
C32_TreeSearchWithCutoffTerminates ==
    FiniteCutoffTreeSearch ~> (pc = "done")

\* such a search on a goal-free instance returned None after it had extended
\* nodes and after the cutoff had rejected children
C32_Witness ==
    /\ FiniteCutoffTreeSearch
    /\ pc = "done"
    /\ result = 0
    /\ ~cb_stop
    /\ ~GoalReachable(nodes[1])
    /\ total_extends >= 2
    /\ total_enqueues > Len(admitted) - 1

\* C33: graph search returns for every frontier strategy and every cutoff,
\* the no-limit one included, whether or not a goal exists, when the callback
\* returns.
C33_GraphSearchTerminates ==
    (alg = "graph") ~> (pc = "done")

\* a graph search without a cutoff on a goal-free instance returned None
\* after it had extended three nodes or more
C33_Witness ==
    /\ alg = "graph"
    /\ cutoff = INF
    /\ pc = "done"
    /\ result = 0
    /\ ~cb_stop
    /\ ~GoalReachable(nodes[1])
    /\ total_extends >= 3

(***************************************************************************)
(* The counter of enqueues (checked under Spec)                            *)
(***************************************************************************)
\* C34 (as the specification states it): after a tree or graph search has
\* returned, total_enqueues is the number of child nodes that were admitted
\* to the frontier during the search (the root is admitted by search()
\* itself and is no child); a child rejected by the cutoff does not count.
C34_EnqueuesCountAdmitted ==
    pc = "done" => total_enqueues = Len(admitted) - 1

(***************************************************************************)
(* Properties of the play-game controller (checked under PlaySpec)         *)
(***************************************************************************)
\* C35 (as the specification states it): whenever continue_game advances
\* current_state with search_result_best_action, current_state has the state
\* features of the search_root_state that was given to the agent.
C35_ActionAppliedToItsState ==
    app.last_applied # <<>> => app.last_applied[1] = app.last_applied[2]

\* C36 (as the specification states it): every status change requested
\* through update_status_and_ui is listed in VALID_STATUS_TRANSITIONS for
\* the current status: the assert never fails.
C36_StatusAssertNeverFails ==
    ~app.assert_failed

(***************************************************************************)
(* Properties of the reached positions (checked under BoardSpec)           *)
(***************************************************************************)
\* C37: for any two TicTacToe states reached by legal moves from the same
\* initial state, equal boards (equal state features) imply equal
\* current_player_index, so == never identifies two states with different
\* players to move.
C37_BoardDeterminesPlayer ==
    \A i, j \in { k \in 1..Len(nodes) : nodes[k].kind = "TicTacToe" } :
        /\ GameFeatures(boards, nodes[i]) = GameFeatures(boards, nodes[j])
              => nodes[i].current_player_index = nodes[j].current_player_index
        /\ GameNodeEq(boards, nodes[i], nodes[j])
              => nodes[i].current_player_index = nodes[j].current_player_index

\* two nodes three moves deep with equal boards, reached through parents
\* whose boards differ (the same moves in another order)
C37_Witness ==
    \E i, j \in { k \in 1..Len(nodes) : nodes[k].kind = "TicTacToe" } :
        /\ i # j
        /\ nodes[i].depth = 3
        /\ nodes[j].depth = 3
        /\ GameNodeEq(boards, nodes[i], nodes[j])
        /\ ~GameNodeEq(boards, nodes[nodes[i].parent], nodes[nodes[j].parent])
        /\ nodes[i].last_action # nodes[j].last_action

\* each of the numbers 0..N*N-1 is on exactly one cell of the N-by-N tiles
IsPermutation(tiles) ==
    LET n == Len(tiles)
    IN  /\ \A r \in 1..n : Len(tiles[r]) = n
        /\ \A v \in 0..(n * n - 1) :
              Cardinality({ x \in (1..n) \X (1..n) : tiles[x[1]][x[2]] = v }) = 1

\* C38: in every SlidePuzzleState reached by legal actions from a valid
\* initial state of size N, tiles is a permutation of 0..N*N-1 and the tile
\* at empty_pos is 0.
C38_TilesPermutationEmptyIsZero ==
    \A i \in 1..Len(nodes) :
        nodes[i].kind = "SlidePuzzle"
            => /\ IsPermutation(nodes[i].tiles)
               /\ nodes[i].tiles[nodes[i].empty_pos.row + 1][nodes[i].empty_pos.col + 1] = 0

\* a puzzle of size 3 four moves from its initial state, the empty spot
\* elsewhere and three tiles or more on other cells
C38_Witness ==
    \E i \in 1..Len(nodes) :
        /\ nodes[i].kind = "SlidePuzzle"
        /\ get_size(nodes[i]) = 3
        /\ nodes[i].depth = 4
        /\ nodes[i].empty_pos # nodes[1].empty_pos
        /\ Cardinality({ x \in (1..3) \X (1..3) :
                           nodes[i].tiles[x[1]][x[2]] # nodes[1].tiles[x[1]][x[2]] }) >= 3

====
